---- MODULE Spec2Model ----
(***************************************************************************)
(* check-cx: the snapshot service (loadSnapshotForScope), its per-scope    *)
(* ping cache and the history store (SnapshotStore) it refreshes.          *)
(*                                                                         *)
(* Every await of the source is a step boundary: the code between two      *)
(* awaits runs as one action, as it does on the JavaScript event loop.     *)
(***************************************************************************)
EXTENDS Integers, Sequences, FiniteSets, TLC

VARIABLES
    now,        \* Date.now(), in abstract clock units
    table,      \* rows of check_history, listed newest checked_at first
    pingCache,  \* cache key -> PingCacheEntry
    calls,      \* one record per loadSnapshotForScope call
    batches,    \* one record per inflightPromise, named by the call that made it
    probe,      \* one run of a provider probe (runStreamCheck, checkAnthropic, checkOpenAI)
    page,       \* one run of a read endpoint (loadDashboardData, loadGroupDashboardData)
    poller,     \* the official-status poller: timer, polling flag, runs, cache
    ticker,     \* the background poller driving the default scope on a timer
    summary,    \* one application of parseAnthropicSummary
    outbound,   \* one application of resolveModelPreferences
    store,      \* one call of SnapshotStore.fetch or SnapshotStore.prune
    attach,     \* one timeline built over a heap of CheckResult objects
    clients     \* the vendor client caches and the clients probes were given

vars == <<now, table, pingCache, calls, batches, probe, page, poller, ticker, summary, outbound, store, attach, clients>>

----------------------------------------------------------------------------
(* Bounds                                                                  *)

NumCallers == 2
MaxClock == 3
\* getPollingIntervalMs(), in clock units
pollIntervalMs == 2

Callers == 1..NumCallers

----------------------------------------------------------------------------
(* Program constants                                                       *)

MAX_POINTS_PER_PROVIDER == 60

\* the rows check_history holds for config "a" when the process starts: none,
\* or a full ring
Prefills == {0, MAX_POINTS_PER_PROVIDER}

RefreshModes == {"always", "missing", "never"}

\* check_configs as loadProviderConfigsFromDB returns it: "a" and "b" are the
\* configs of group g, so that the dashboard and group g hold the same active
\* ids; "m" is the only config of group h and is in maintenance
UNGROUPED_KEY == "__ungrouped__"

AllConfigs ==
    { [id |-> "a", groupName |-> "g", is_maintenance |-> FALSE],
      [id |-> "b", groupName |-> "g", is_maintenance |-> FALSE],
      [id |-> "m", groupName |-> "h", is_maintenance |-> TRUE] }

ConfigIds == {cfg.id : cfg \in AllConfigs}

----------------------------------------------------------------------------
(* Scopes, as loadDashboardData and loadGroupDashboardData build them      *)

\* [...allowedIds].sort().join("|"), or "__empty__": the key names the set
\* of ids
ProviderKey(allowedIds) ==
    IF allowedIds = {} THEN {"__empty__"} ELSE allowedIds

\* mutant: the maintenance configs are not filtered out
BuildScope_KeepsMaintenance(prefix, configs) ==
    LET activeConfigs == configs
        allowedIds == {cfg.id : cfg \in activeConfigs}
    IN  [owner |-> prefix,
         cacheKey |-> <<prefix, pollIntervalMs, ProviderKey(allowedIds)>>,
         pollIntervalMs |-> pollIntervalMs,
         activeConfigs |-> activeConfigs,
         allowedIds |-> allowedIds]

\* mutant: the cache key has no scope prefix
BuildScope_SharedKey(prefix, configs) ==
    LET activeConfigs == {cfg \in configs : ~cfg.is_maintenance}
        allowedIds == {cfg.id : cfg \in activeConfigs}
    IN  [owner |-> prefix,
         cacheKey |-> <<"", pollIntervalMs, ProviderKey(allowedIds)>>,
         pollIntervalMs |-> pollIntervalMs,
         activeConfigs |-> activeConfigs,
         allowedIds |-> allowedIds]

\* the SnapshotScope the loaders pass to loadSnapshotForScope; owner names
\* the loader that built it and is not a field of the code's object
BuildScope(prefix, configs) ==
    LET activeConfigs == {cfg \in configs : ~cfg.is_maintenance}
        allowedIds == {cfg.id : cfg \in activeConfigs}
    IN  [owner |-> prefix,
         cacheKey |-> <<prefix, pollIntervalMs, ProviderKey(allowedIds)>>,
         pollIntervalMs |-> pollIntervalMs,
         activeConfigs |-> activeConfigs,
         allowedIds |-> allowedIds]

DashboardScope == BuildScope("dashboard", AllConfigs)

GroupConfigs(targetGroupName) ==
    {cfg \in AllConfigs :
        IF targetGroupName = UNGROUPED_KEY
        THEN cfg.groupName = ""
        ELSE cfg.groupName = targetGroupName}

GroupScope(targetGroupName) ==
    BuildScope("group:" \o targetGroupName, GroupConfigs(targetGroupName))

Scopes == {DashboardScope, GroupScope("g"), GroupScope("h")}

CacheKeys == {s.cacheKey : s \in Scopes}

----------------------------------------------------------------------------
(* HistorySnapshot objects.  ref is the identity of the JavaScript object: *)
(* two snapshots are the same object iff their refs are equal.             *)

EmptyRings == [id \in ConfigIds |-> <<>>]

ObjectKeys(history) == {id \in ConfigIds : history.rings[id] # <<>>}

Undefined == [ref |-> <<"undefined", 0>>, rings |-> EmptyRings]

IsDefined(history) == history.ref[1] # "undefined"

EmptyObject(kind, n) == [ref |-> <<kind, n>>, rings |-> EmptyRings]

----------------------------------------------------------------------------
(* The history store                                                       *)

Min(x, y) == IF x < y THEN x ELSE y

RowsOfConfig(rows, id) == SelectSeq(rows, LAMBDA r : r.config_id = id)

\* supabase.from("check_history").insert(records)
InsertRow(rows, r) ==
    LET p == Cardinality({i \in DOMAIN rows : rows[i].checked_at > r.checked_at})
    IN  SubSeq(rows, 1, p) \o <<r>> \o SubSeq(rows, p + 1, Len(rows))

RECURSIVE InsertRecords(_, _)
InsertRecords(rows, records) ==
    IF records = <<>> THEN rows
    ELSE InsertRecords(InsertRow(rows, Head(records)), Tail(records))

normalizeAllowedIds(ids) == {id \in ids : id # ""}

slice(seq, n) == SubSeq(seq, 1, Min(n, Len(seq)))

\* rpc get_recent_check_history(limit_per_config, target_config_ids): the
\* `limit` most recent rows of every requested config
RECURSIVE RpcRecentHistory(_, _, _)
RpcRecentHistory(rows, ids, limit) ==
    IF ids = {} THEN <<>>
    ELSE LET id == CHOOSE x \in ids : TRUE
         IN  slice(RowsOfConfig(rows, id), limit)
                 \o RpcRecentHistory(rows, ids \ {id}, limit)

\* mutant: the comparator is a - b instead of b - a
SortByCheckedAtDesc_Ascending(items) ==
    SortSeq(items, LAMBDA x, y : x.checked_at < y.checked_at)

\* .sort((a, b) => new Date(b.checkedAt) - new Date(a.checkedAt)), stable
SortByCheckedAtDesc(items) ==
    SortSeq(items, LAMBDA x, y : x.checked_at > y.checked_at)

mapRowsToSnapshot(rows, ref) ==
    [ref |-> ref,
     rings |-> [id \in ConfigIds |->
        slice(SortByCheckedAtDesc(RowsOfConfig(rows, id)),
              MAX_POINTS_PER_PROVIDER)]]

\* mutant: the fallback query is not restricted to allowedIds
fallbackFetchSnapshot_Unfiltered(rows, ids, ref) ==
    [ref |-> ref,
     rings |-> [id \in ConfigIds |->
        slice(SortByCheckedAtDesc(RowsOfConfig(rows, id)),
              MAX_POINTS_PER_PROVIDER)]]

\* fallbackFetchSnapshot: select ... order by checked_at desc [in allowedIds],
\* then group by config, sort and slice
fallbackFetchSnapshot(rows, ids, ref) ==
    LET data == SelectSeq(rows, LAMBDA r : r.config_id \in ids)
    IN  [ref |-> ref,
         rings |-> [id \in ConfigIds |->
            slice(SortByCheckedAtDesc(RowsOfConfig(data, id)),
                  MAX_POINTS_PER_PROVIDER)]]

FetchOutcomes == {"rpc", "fallback", "error"}

\* SnapshotStore.fetch({allowedIds}); outcome is what the backend answers:
\* the stored procedure's rows, a missing-procedure error (fallback query),
\* or any other error.  ref names the object the call creates.
fetch(rows, allowedIds, outcome, ref) ==
    LET normalizedIds == normalizeAllowedIds(allowedIds)
    IN  IF normalizedIds = {} THEN [ref |-> ref, rings |-> EmptyRings]
        ELSE IF outcome = "error" THEN [ref |-> ref, rings |-> EmptyRings]
        ELSE IF outcome = "fallback"
             THEN fallbackFetchSnapshot(rows, normalizedIds, ref)
        ELSE mapRowsToSnapshot(
                 RpcRecentHistory(rows, normalizedIds, MAX_POINTS_PER_PROVIDER),
                 ref)

readHistoryForScope(rows, scope, outcome, ref) ==
    IF scope.allowedIds = {} THEN [ref |-> ref, rings |-> EmptyRings]
    ELSE fetch(rows, scope.allowedIds, outcome, ref)

RowIds(rows) == {rows[i].id : i \in DOMAIN rows}

\* rpc prune_check_history(limit_per_config): for each config id, retain
\* the most recent `limit` rows and delete the rest
RpcPruneHistory(rows, limit) ==
    LET keep == UNION {RowIds(slice(RowsOfConfig(rows, id), limit)) :
                          id \in ConfigIds}
    IN  SelectSeq(rows, LAMBDA r : r.id \in keep)

\* the rows the fallback's first query returns: order by config_id, then
\* checked_at desc
RECURSIVE OrderByConfig(_, _)
OrderByConfig(rows, ids) ==
    IF ids = {} THEN <<>>
    ELSE LET id == CHOOSE x \in ids : TRUE
         IN  RowsOfConfig(rows, id) \o OrderByConfig(rows, ids \ {id})

\* the loop of fallbackPruneHistory over data[i..]: seen counts the rows kept
\* per config, a row met once the count has reached limit is to be deleted
RECURSIVE CollectDeleteIds(_, _, _, _)
CollectDeleteIds(data, i, seen, limit) ==
    IF i > Len(data) THEN {}
    ELSE LET record == data[i]
             count == seen[record.config_id]
         IN  IF count >= limit
             THEN {record.id} \cup CollectDeleteIds(data, i + 1, seen, limit)
             ELSE CollectDeleteIds(data, i + 1,
                      [seen EXCEPT ![record.config_id] = count + 1], limit)

\* mutant: the loop keeps one row more than limit per config
fallbackDeleteIds_OffByOne(rows, limit) ==
    CollectDeleteIds(OrderByConfig(rows, ConfigIds), 1,
                     [id \in ConfigIds |-> 0], limit + 1)

fallbackDeleteIds(rows, limit) ==
    CollectDeleteIds(OrderByConfig(rows, ConfigIds), 1,
                     [id \in ConfigIds |-> 0], limit)

\* supabase.from("check_history").delete().in("id", deleteIds)
DeleteIn(rows, deleteIds) == SelectSeq(rows, LAMBDA r : r.id \notin deleteIds)

----------------------------------------------------------------------------
(* The ping cache (global-state) and the probe batch                       *)

\* a key the cache has no entry for yet
AbsentEntry ==
    [present |-> FALSE, lastPingAt |-> 0, inflight |-> 0, history |-> Undefined]

\* getPingCacheEntry(key): the entry of the key, created with lastPingAt 0
\* on first use
getPingCacheEntry(cache, key) ==
    IF cache[key].present THEN cache
    ELSE [cache EXCEPT ![key] = [AbsentEntry EXCEPT !.present = TRUE]]

\* the statuses a probe returns
ProbeStatuses == {"operational", "degraded", "failed"}

\* runProviderChecks(activeConfigs): one CheckResult per config, stamped at
\* the time the probes have all resolved; statusOf is what each probe found
RECURSIVE runProviderChecks(_, _, _)
runProviderChecks(configs, clock, statusOf) ==
    IF configs = {} THEN <<>>
    ELSE LET cfg == CHOOSE x \in configs : TRUE
         IN  <<[id |-> cfg.id, checkedAt |-> clock, status |-> statusOf[cfg.id]]>>
                 \o runProviderChecks(configs \ {cfg}, clock, statusOf)

\* the records append() builds from the results; the database numbers the
\* rows of batch b.  Of a row's columns the model keeps id, config_id and
\* checked_at.
AppendRecords(results, b) ==
    [i \in DOMAIN results |->
        [id |-> 100 * b + i,
         config_id |-> results[i].id,
         checked_at |-> results[i].checkedAt]]

----------------------------------------------------------------------------
(* Provider probes: runStreamCheck, checkAnthropic and checkOpenAI.  Times *)
(* are milliseconds since the probe's startedAt.                           *)

ProbeKinds == {"stream", "anthropic", "openai"}

DEGRADED_THRESHOLD_MS == 6000
STREAM_TIMEOUT_MS == 45000
ANTHROPIC_TIMEOUT_MS == 45000
OPENAI_TIMEOUT_MS == 15000

\* DEFAULT_TIMEOUT_MS of the file the probe lives in
DEFAULT_TIMEOUT_MS(kind) ==
    CASE kind = "stream" -> STREAM_TIMEOUT_MS
      [] kind = "anthropic" -> ANTHROPIC_TIMEOUT_MS
      [] kind = "openai" -> OPENAI_TIMEOUT_MS

\* the values of Date.now() - startedAt a probe can observe
ElapsedSamples ==
    {0, 800, DEGRADED_THRESHOLD_MS, DEGRADED_THRESHOLD_MS + 1,
     OPENAI_TIMEOUT_MS, STREAM_TIMEOUT_MS}

\* latencyMs and pingLatencyMs: null, or a number
Null == <<>>
Number(n) == <<n>>

\* the user-visible messages
MSG_TIMEOUT == <<"qing qiu chao shi">>            \* "请求超时"
MSG_UNKNOWN == <<"wei zhi cuo wu">>               \* "未知错误"
MSG_EMPTY_BODY == <<"xiang ying ti wei kong">>    \* "响应体为空"
MsgDegraded(latencyMs) == <<"xiang ying cheng gong dan hao shi", latencyMs>>
MsgOperational(latencyMs) == <<"liu shi xiang ying zheng chang", latencyMs>>

\* thrown values: name and message of the Error, and whether it is an
\* instance of the vendor SDK's APIUserAbortError
FetchAbortError ==
    [name |-> "AbortError", message |-> <<"This operation was aborted">>,
     userAbort |-> FALSE]
SdkAbortError ==
    [name |-> "Error", message |-> <<"Request was aborted.">>, userAbort |-> TRUE]
OtherErrors ==
    { [name |-> "TypeError", message |-> <<"fetch failed">>, userAbort |-> FALSE],
      [name |-> "Error", message |-> <<"401 status code (no body)">>,
       userAbort |-> FALSE],
      [name |-> "Error", message |-> <<>>, userAbort |-> FALSE] }

\* what a pending request throws once controller.abort() has run: fetch
\* rejects with an AbortError, a vendor SDK with that or with its own
\* APIUserAbortError
AbortErrors(kind) ==
    IF kind = "stream" THEN {FetchAbortError}
    ELSE {FetchAbortError, SdkAbortError}

\* /request was aborted/i.test(message)
REQUEST_ABORTED_MESSAGE(message) == message = <<"Request was aborted.">>

\* anthropic.ts 26-37
isAbortLikeError(error) ==
    \/ error.name = "AbortError"
    \/ error.userAbort
    \/ REQUEST_ABORTED_MESSAGE(error.message)

\* err?.message || fallback
MessageOr(error, fallback) ==
    IF error.message = <<>> THEN fallback ELSE error.message

\* the message of the catch branch of each probe
CatchMessage(kind, error) ==
    CASE kind = "stream" ->
            IF error.name = "AbortError" \/ REQUEST_ABORTED_MESSAGE(error.message)
            THEN MSG_TIMEOUT ELSE MessageOr(error, MSG_UNKNOWN)
      [] kind = "anthropic" ->
            IF isAbortLikeError(error)
            THEN MSG_TIMEOUT ELSE MessageOr(error, MSG_UNKNOWN)
      [] kind = "openai" ->
            IF error.name = "AbortError"
            THEN MSG_TIMEOUT ELSE MessageOr(error, MSG_UNKNOWN)

\* mutant: the threshold is exclusive
ClassifyLatency_Exclusive(latencyMs) ==
    IF latencyMs < DEGRADED_THRESHOLD_MS THEN "operational" ELSE "degraded"

\* latencyMs <= DEGRADED_THRESHOLD_MS ? "operational" : "degraded"
ClassifyLatency(latencyMs) ==
    IF latencyMs <= DEGRADED_THRESHOLD_MS THEN "operational" ELSE "degraded"

SuccessMessage(status, latencyMs) ==
    IF status = "degraded" THEN MsgDegraded(latencyMs)
    ELSE MsgOperational(latencyMs)

\* extractMessage(errorBody) || `HTTP ${response.status}`
HttpErrorMessage(extracted, code) ==
    IF extracted # <<>> THEN extracted ELSE <<"HTTP", code>>

PingOutcomes == {"no_endpoint", "bad_url", "head_ok", "get_ok", "both_fail"}

\* mutant: tryPing rethrows what is not an AbortError
measureEndpointPing_Rethrows(outcome, t) ==
    CASE outcome \in {"no_endpoint", "bad_url"} -> [rejects |-> FALSE, value |-> Null]
      [] outcome \in {"head_ok", "get_ok"} -> [rejects |-> FALSE, value |-> Number(t)]
      [] outcome = "both_fail" -> [rejects |-> TRUE, value |-> Null]

\* measureEndpointPing: how pingPromise settles
measureEndpointPing(outcome, t) ==
    CASE outcome \in {"no_endpoint", "bad_url"} -> [rejects |-> FALSE, value |-> Null]
      [] outcome \in {"head_ok", "get_ok"} -> [rejects |-> FALSE, value |-> Number(t)]
      [] outcome = "both_fail" -> [rejects |-> FALSE, value |-> Null]

NoResult ==
    [status |-> "none", latencyMs |-> Null, pingLatencyMs |-> Null,
     message |-> <<>>]

IdleProbe ==
    [pc |-> "idle", kind |-> "stream", elapsed |-> 0, aborted |-> FALSE,
     sawEvent |-> FALSE, path |-> "none", rejected |-> FALSE, result |-> NoResult]

----------------------------------------------------------------------------
(* The read endpoints: loadDashboardData, loadGroupDashboardData, the      *)
(* group route, buildProviderTimelines and groupTimelines                  *)

UNGROUPED_DISPLAY_NAME == "wei fen zu"                \* "未分组"
ERR_NO_GROUP == "fen zu bu cun zai huo mei you pei zhi" \* "分组不存在或没有配置"

Range(seq) == {seq[i] : i \in DOMAIN seq}

\* the enabled rows check_configs can hold, in the order of their id; a
\* groupName of "" is a config without group (group_name null or empty)
CheckConfigRows ==
    << [id |-> "a", name |-> "beta", groupName |-> "H", is_maintenance |-> FALSE],
       [id |-> "b", name |-> "Alpha", groupName |-> "", is_maintenance |-> FALSE],
       [id |-> "m", name |-> "gamma", groupName |-> "", is_maintenance |-> TRUE],
       [id |-> "n", name |-> "Delta", groupName |-> "g", is_maintenance |-> TRUE] >>

PageConfigIds == {CheckConfigRows[i].id : i \in DOMAIN CheckConfigRows}

GroupNames == {"g", "H", "x", UNGROUPED_KEY}

\* the position of a string in the collation String.prototype.localeCompare
\* uses: letters compare without regard to case first
LocaleRank(str) ==
    CASE str = "Alpha" -> 1
      [] str = "beta" -> 2
      [] str = "Delta" -> 3
      [] str = "gamma" -> 4
      [] str = "g" -> 1
      [] str = "H" -> 2
      [] str = "x" -> 3
      [] OTHER -> 0

\* mutant: the comparator is b.localeCompare(a)
localeCompare_Reversed(a, b) == LocaleRank(b) - LocaleRank(a)

\* a.localeCompare(b)
localeCompare(a, b) == LocaleRank(a) - LocaleRank(b)

\* loadProviderConfigsFromDB: the rows the query returns, or [] when the
\* query answers an error or anything throws
LoadOutcomes == {"ok", "error", "throws"}

loadProviderConfigsFromDB(outcome, rows) ==
    IF outcome = "ok" THEN rows ELSE <<>>

\* a stored CheckResult of config, as fetch returns it
HistoryItem(config, checkedAt) ==
    [id |-> config.id, name |-> config.name, groupName |-> config.groupName,
     status |-> "operational", checkedAt |-> checkedAt]

\* a HistorySnapshot as the list of its entries: for every config of configs
\* with count[id] > 0 the count[id] newest results, newest first
HistoryEntries(configs, count) ==
    LET held == SelectSeq(configs, LAMBDA cfg : count[cfg.id] > 0)
    IN  [i \in DOMAIN held |->
            [id |-> held[i].id,
             items |-> [k \in 1..count[held[i].id] |->
                          HistoryItem(held[i], count[held[i].id] + 1 - k)]]]

createMaintenanceTimeline(config, clock) ==
    [id |-> config.id,
     items |-> <<>>,
     latest |-> [id |-> config.id, name |-> config.name,
                 groupName |-> config.groupName, status |-> "maintenance",
                 checkedAt |-> clock]]

\* buildProviderTimelines(history, maintenanceConfigs)
buildProviderTimelines(history, maintenanceConfigs, clock) ==
    LET nonEmpty == SelectSeq(history, LAMBDA e : e.items # <<>>)
        mapped == [i \in DOMAIN nonEmpty |->
                     LET sorted == SortSeq(nonEmpty[i].items,
                                     LAMBDA x, y : x.checkedAt > y.checkedAt)
                     IN  [id |-> nonEmpty[i].id, items |-> sorted,
                          latest |-> sorted[1]]]
        maintenanceTimelines ==
            [i \in DOMAIN maintenanceConfigs |->
                createMaintenanceTimeline(maintenanceConfigs[i], clock)]
    IN  SortSeq(mapped \o maintenanceTimelines,
                LAMBDA x, y : localeCompare(x.latest.name, y.latest.name) < 0)

\* timeline.latest.groupName || UNGROUPED_KEY
GroupKeyOf(timeline) ==
    IF timeline.latest.groupName = "" THEN UNGROUPED_KEY
    ELSE timeline.latest.groupName

\* the keys of groupMap, in the order of their insertion
RECURSIVE GroupMapKeys(_, _, _)
GroupMapKeys(timelines, i, keys) ==
    IF i > Len(timelines) THEN keys
    ELSE LET key == GroupKeyOf(timelines[i])
         IN  GroupMapKeys(timelines, i + 1,
                 IF key \in Range(keys) THEN keys ELSE Append(keys, key))

\* mutant: the ungrouped bucket is never pushed
groupTimelines_DropsUngrouped(timelines) ==
    LET keys == GroupMapKeys(timelines, 1, <<>>)
        namedGroups ==
            SortSeq(SelectSeq(keys, LAMBDA key : key # UNGROUPED_KEY),
                    LAMBDA a, b : localeCompare(a, b) < 0)
    IN  [i \in DOMAIN namedGroups |->
            [groupName |-> namedGroups[i],
             displayName |-> namedGroups[i],
             timelines |->
                SortSeq(SelectSeq(timelines,
                            LAMBDA t : GroupKeyOf(t) = namedGroups[i]),
                        LAMBDA x, y :
                            localeCompare(x.latest.name, y.latest.name) < 0)]]

\* groupTimelines(timelines)
groupTimelines(timelines) ==
    LET keys == GroupMapKeys(timelines, 1, <<>>)
        namedGroups ==
            SortSeq(SelectSeq(keys, LAMBDA key : key # UNGROUPED_KEY),
                    LAMBDA a, b : localeCompare(a, b) < 0)
        Members(key) ==
            SortSeq(SelectSeq(timelines, LAMBDA t : GroupKeyOf(t) = key),
                    LAMBDA x, y : localeCompare(x.latest.name, y.latest.name) < 0)
        named == [i \in DOMAIN namedGroups |->
                     [groupName |-> namedGroups[i],
                      displayName |-> namedGroups[i],
                      timelines |-> Members(namedGroups[i])]]
    IN  IF UNGROUPED_KEY \in Range(keys)
        THEN Append(named, [groupName |-> UNGROUPED_KEY,
                            displayName |-> UNGROUPED_DISPLAY_NAME,
                            timelines |-> Members(UNGROUPED_KEY)])
        ELSE named

\* mutant: the sentinel is compared like a group name
FilterGroup_NoSentinel(allConfigs, targetGroupName) ==
    SelectSeq(allConfigs, LAMBDA config : config.groupName = targetGroupName)

\* loadGroupDashboardData: groupConfigs
FilterGroup(allConfigs, targetGroupName) ==
    LET isTargetUngrouped == targetGroupName = UNGROUPED_KEY
    IN  SelectSeq(allConfigs, LAMBDA config :
            IF isTargetUngrouped THEN config.groupName = ""
            ELSE config.groupName = targetGroupName)

NoData ==
    [isNull |-> TRUE, groupName |-> "", displayName |-> "",
     providerTimelines |-> <<>>, groupedTimelines |-> <<>>, total |-> 0]

\* the DashboardData / GroupDashboardData the loaders return
AssembleData(endpoint, targetGroupName, history, maintenanceConfigs, clock) ==
    LET providerTimelines ==
            buildProviderTimelines(history, maintenanceConfigs, clock)
    IN  [isNull |-> FALSE,
         groupName |-> IF endpoint = "group" THEN targetGroupName ELSE "",
         displayName |->
            IF endpoint # "group" THEN ""
            ELSE IF targetGroupName = UNGROUPED_KEY THEN UNGROUPED_DISPLAY_NAME
            ELSE targetGroupName,
         providerTimelines |-> providerTimelines,
         groupedTimelines |->
            IF endpoint = "dashboard" THEN groupTimelines(providerTimelines)
            ELSE <<>>,
         total |-> Len(providerTimelines)]

\* the answer of the route: NextResponse.json(data), or 404 for null
RouteResponse(data) ==
    IF data.isNull THEN [status |-> 404, error |-> ERR_NO_GROUP]
    ELSE [status |-> 200, error |-> ""]

NoResponse == [status |-> 0, error |-> ""]


----------------------------------------------------------------------------
(* The official-status poller (official-status-poller)                     *)

MaxPollerOps == 6

OfficialResults == {"operational", "down"}

\* globalThis as the module finds it on first load: no timer, no polling
\* flag, an empty cache.  calls, immediates and last record what happened:
\* the start/ensure calls and the immediate runs since the last stop, and
\* the branch the last handler took.
IdlePoller ==
    [timer |-> FALSE, liveTimers |-> 0, polling |-> FALSE, executing |-> 0,
     cache |-> "none", calls |-> 0, immediates |-> 0, ops |-> 0,
     last |-> "none"]

\* mutant: the timer handle is never seen
getOfficialStatusTimer_Null(p) == FALSE

\* getOfficialStatusTimer() !== null
getOfficialStatusTimer(p) == p.timer

\* isOfficialStatusPolling()
isOfficialStatusPolling(p) == p.polling

\* runOfficialStatusCheck up to its await: skip when the flag is set, else
\* set the flag and start the checks
runOfficialStatusCheck(p) ==
    IF isOfficialStatusPolling(p) THEN p
    ELSE [p EXCEPT !.polling = TRUE, !.executing = @ + 1]

\* mutant: the flag is reset at the end of the try block, not in a finally
settleOfficialStatusCheck_NoFinally(p, outcome, result) ==
    [p EXCEPT !.executing = @ - 1,
              !.cache = IF outcome = "ok" THEN result ELSE @,
              !.polling = IF outcome = "ok" THEN FALSE ELSE @]

\* runOfficialStatusCheck from its await on (lines 222-239): the cache
\* update when the checks resolved, the catch when they threw, the finally
settleOfficialStatusCheck(p, outcome, result) ==
    [p EXCEPT !.executing = @ - 1,
              !.cache = IF outcome = "ok" THEN result ELSE @,
              !.polling = FALSE]

\* startOfficialStatusPoller
startOfficialStatusPoller(p) ==
    IF getOfficialStatusTimer(p) THEN p
    ELSE [runOfficialStatusCheck(p) EXCEPT
             !.immediates = @ + 1, !.timer = TRUE, !.liveTimers = @ + 1]

\* ensureOfficialStatusPoller
ensureOfficialStatusPoller(p) ==
    IF ~getOfficialStatusTimer(p) THEN startOfficialStatusPoller(p) ELSE p

\* stopOfficialStatusPoller
stopOfficialStatusPoller(p) ==
    IF ~p.timer THEN p
    ELSE [p EXCEPT !.liveTimers = @ - 1, !.timer = FALSE, !.polling = FALSE]

----------------------------------------------------------------------------
(* The background poller (lib/core/poller): a timer that calls             *)
(* loadSnapshotForScope(default scope, "always") every pollIntervalMs      *)

MaxTickerClock == 12
MaxRefreshDuration == 3

\* entry is the default scope's cache entry; ticked is the time of the last
\* tick handled, started the time the last probe batch began.  decision,
\* sawFresh and sawInflight record the branch of refreshHistory the last
\* tick took and what it read; gap and duration record, at the start of a
\* batch, the time since the previous start and the previous refresh's
\* duration (gap is 0 for the first batch); lasted is the duration of the
\* last refresh that settled.
IdleTicker ==
    [clock |-> 0, entry |-> [AbsentEntry EXCEPT !.present = TRUE],
     ticked |-> -1, started |-> -1, lasted |-> 0, duration |-> 0, gap |-> 0,
     batches |-> 0,
     decision |-> "none", sawFresh |-> FALSE, sawInflight |-> FALSE]

----------------------------------------------------------------------------
(* parseAnthropicSummary (official-status/anthropic).  A string is the     *)
(* tuple of its words, "major_outage" being <<"major", "outage">>.         *)

MaxComponents == 2

\* String.prototype.toLowerCase, word by word
LowerWord(word) ==
    CASE word = "None" -> "none"
      [] word = "Major" -> "major"
      [] word = "Outage" -> "outage"
      [] word = "HIGH" -> "high"
      [] OTHER -> word

toLowerCase(str) == [i \in DOMAIN str |-> LowerWord(str[i])]

\* String.prototype.includes for a one-word pattern
includes(str, word) == \E i \in DOMAIN str : str[i] = word

\* the values of data.status.indicator the vendor page can send
Indicators ==
    {<<"none">>, <<"minor">>, <<"major">>, <<"critical">>, <<"None">>,
     <<"maintenance">>}

\* the values of component.status the vendor page can send
ComponentStatuses ==
    {<<"operational">>, <<"degraded", "performance">>, <<"partial", "outage">>,
     <<"major", "outage">>, <<"Major", "Outage">>, <<"under", "maintenance">>}

ComponentLists ==
    UNION {[1..n -> ComponentStatuses] : n \in 0..MaxComponents}

\* lines 121-140: the components that are not operational
affectedComponents(components) ==
    SelectSeq(components, LAMBDA st : toLowerCase(st) # <<"operational">>)

isDownComponent(compStatus) ==
    \/ includes(compStatus, "outage")
    \/ includes(compStatus, "down")
    \/ compStatus = <<"major", "outage">>

isDegradedComponent(compStatus) ==
    /\ ~isDownComponent(compStatus)
    /\ \/ includes(compStatus, "degraded")
       \/ compStatus = <<"degraded", "performance">>

\* parseAnthropicSummary(data): the status of the result
parseAnthropicSummary(rawIndicator, components) ==
    LET indicator == toLowerCase(rawIndicator)
        affected == affectedComponents(components)
        hasDownComponents ==
            \E i \in DOMAIN affected : isDownComponent(toLowerCase(affected[i]))
        hasDegradedComponents ==
            \E i \in DOMAIN affected :
                isDegradedComponent(toLowerCase(affected[i]))
    IN  IF indicator = <<"none">> /\ affected = <<>> THEN "operational"
        ELSE IF \/ indicator = <<"critical">>
                \/ indicator = <<"major">>
                \/ hasDownComponents THEN "down"
        ELSE IF indicator = <<"minor">> \/ hasDegradedComponents THEN "degraded"
        ELSE "unknown"

NoSummary ==
    [pc |-> "idle", indicator |-> <<>>, components |-> <<>>, status |-> ""]

----------------------------------------------------------------------------
(* resolveModelPreferences (providers/openai).  A model string is the      *)
(* tuple of its parts: names, effort words, "@", "#" and " " (white space). *)

MaxModelLen == 4

NameWords == {"gpt-5.1-codex", "o3-mini", "gpt-4o"}

EffortWords == {"high", "HIGH", "mini", "medium"}

Separators == {" ", "@", "#"}

\* the config.model values: no two words without a separator between them
ModelStrings ==
    {m \in UNION {[1..n -> NameWords \cup EffortWords \cup Separators] :
                      n \in 0..MaxModelLen} :
        \A i \in DOMAIN m :
            (i > 1 /\ m[i] \notin Separators) => m[i - 1] \in Separators}

RECURSIVE trimStart(_)
trimStart(str) ==
    IF str # <<>> /\ str[1] = " " THEN trimStart(Tail(str)) ELSE str

RECURSIVE trimEnd(_)
trimEnd(str) ==
    IF str # <<>> /\ str[Len(str)] = " "
    THEN trimEnd(SubSeq(str, 1, Len(str) - 1)) ELSE str

\* String.prototype.trim
trim(str) == trimEnd(trimStart(str))

\* mutant: the effort is sent as written
EFFORT_ALIAS_MAP_AsWritten(effort) == <<effort>>

\* EFFORT_ALIAS_MAP[effort]
EFFORT_ALIAS_MAP(effort) ==
    CASE effort = "mini" -> <<"minimal">>
      [] effort = "minimal" -> <<"minimal">>
      [] effort = "low" -> <<"low">>
      [] effort = "medium" -> <<"medium">>
      [] effort = "high" -> <<"high">>
      [] OTHER -> <<>>

\* /^(.*?)[@#](mini|minimal|low|medium|high)$/i
directiveMatch(trimmed) ==
    /\ Len(trimmed) >= 2
    /\ trimmed[Len(trimmed) - 1] \in {"@", "#"}
    /\ EFFORT_ALIAS_MAP(LowerWord(trimmed[Len(trimmed)])) # <<>>

\* REASONING_MODEL_HINTS.some((regex) => regex.test(trimmed)): /codex/i,
\* /\bgpt-5/i, /\bo[1-9]/i, /deepseek-r1/i, /qwq/i
matchesReasoningHint(trimmed) ==
    \E i \in DOMAIN trimmed : trimmed[i] \in {"gpt-5.1-codex", "o3-mini"}

\* resolveModelPreferences(model); reasoningEffort is <<>> when absent
resolveModelPreferences(model) ==
    LET trimmed == trim(model)
        base == SubSeq(trimmed, 1, Len(trimmed) - 2)
    IN  IF trimmed = <<>>
        THEN [requestModel |-> model, reasoningEffort |-> <<>>]
        ELSE IF directiveMatch(trimmed)
        THEN [requestModel |-> IF trim(base) # <<>> THEN trim(base) ELSE trimmed,
              reasoningEffort |->
                  EFFORT_ALIAS_MAP(LowerWord(trimmed[Len(trimmed)]))]
        ELSE IF matchesReasoningHint(trimmed)
        THEN [requestModel |-> trimmed, reasoningEffort |-> <<"medium">>]
        ELSE [requestModel |-> trimmed, reasoningEffort |-> <<>>]

\* the payload of checkOpenAI: reasoning_effort is set only when truthy
requestPayload(model) ==
    LET prefs == resolveModelPreferences(model)
    IN  [model |-> prefs.requestModel,
         has_reasoning_effort |-> prefs.reasoningEffort # <<>>,
         reasoning_effort |-> prefs.reasoningEffort]

NoOutbound ==
    [pc |-> "idle", configModel |-> <<>>,
     payload |-> [model |-> <<>>, has_reasoning_effort |-> FALSE,
                  reasoning_effort |-> <<>>]]

----------------------------------------------------------------------------
(* SnapshotStore.fetch and SnapshotStore.prune against a failing backend   *)

RPC_RECENT_HISTORY == "get_recent_check_history"

RPC_PRUNE_HISTORY == "prune_check_history"

\* the `error` of a supabase answer: null, or a PostgrestError whose message
\* may be missing
NoError == [present |-> FALSE, hasMessage |-> FALSE, message |-> <<>>]

ErrorMessages ==
    {<<"function", RPC_RECENT_HISTORY, "does", "not", "exist">>,
     <<"function", RPC_PRUNE_HISTORY, "does", "not", "exist">>,
     <<"connection", "refused">>,
     <<>>}

StoreErrors ==
    {[present |-> TRUE, hasMessage |-> TRUE, message |-> m] : m \in ErrorMessages}
        \cup {[present |-> TRUE, hasMessage |-> FALSE, message |-> <<>>]}

StoreAnswers == {NoError} \cup StoreErrors

\* mutant: every error that carries a message counts as a missing procedure
isMissingFunctionError_AnyMessage(error) ==
    error.present /\ error.hasMessage /\ error.message # <<>>

isMissingFunctionError(error) ==
    IF ~error.present \/ ~error.hasMessage \/ error.message = <<>>
    THEN FALSE
    ELSE \/ includes(error.message, RPC_RECENT_HISTORY)
         \/ includes(error.message, RPC_PRUNE_HISTORY)

\* fetch, lines 53-62: what the answer of the stored procedure leads to
FetchOutcomeOf(error) ==
    IF ~error.present THEN "rpc"
    ELSE IF isMissingFunctionError(error) THEN "fallback"
    ELSE "error"

\* pruneInternal, lines 100-109
PruneOutcomeOf(error) ==
    IF ~error.present THEN "ok"
    ELSE IF isMissingFunctionError(error) THEN "missing"
    ELSE "error"

\* the values of options.allowedIds a caller passes when it passes any
AllowedIdsArgs == SUBSET {"a", "b", ""}

\* the sizes of check_history the store is called on: empty, one row, and one
\* row more than a ring holds
StoreRowCounts == {0, 1, MAX_POINTS_PER_PROVIDER + 1}

NoStore ==
    [pc |-> "idle", op |-> "none", provided |-> FALSE, allowedIds |-> {},
     rows |-> <<>>, error |-> NoError, contacted |-> FALSE, path |-> "none",
     result |-> Undefined, after |-> <<>>,
     limit |-> MAX_POINTS_PER_PROVIDER, fallback |-> "none"]

----------------------------------------------------------------------------
(* buildProviderTimelines over CheckResult objects with identity            *)

MaxHeapItems == 3

ProviderTypes == {"openai", "anthropic"}

\* officialStatusCache.get(type): "absent" stands for undefined
OfficialStatuses == {"absent", "operational", "degraded"}

getOfficialStatus(cache, type) == cache[type]

\* a CheckResult object; officialStatus "absent" is a missing property
CheckResult(type, checkedAt) ==
    [type |-> type, checkedAt |-> checkedAt, officialStatus |-> "absent"]

\* { ...result }: a new object with the fields of heap[a]; the heap grows by
\* one and the new object's address is the new length
Spread(heap, a) == Append(heap, heap[a])

\* mutant: the head item itself, no copy
CopyHead_Alias(heap, a) == [heap |-> heap, ref |-> a]

\* { ...sorted[0] } (dashboard-data.ts 393, types/dashboard.ts 309)
CopyHead(heap, a) == [heap |-> Spread(heap, a), ref |-> Len(heap) + 1]

\* attachOfficialStatus (dashboard-data.ts 409-415): the object it is given
\* when the cache knows nothing, else a new object with officialStatus
attachOfficialStatus(heap, a, cache) ==
    LET officialStatus == getOfficialStatus(cache, heap[a].type)
    IN  IF officialStatus = "absent" THEN [heap |-> heap, ref |-> a]
        ELSE [heap |-> Append(heap, [heap[a] EXCEPT
                                        !.officialStatus = officialStatus]),
              ref |-> Len(heap) + 1]

\* types/dashboard.ts 310-313: latest.officialStatus = officialStatus
assignOfficialStatus(heap, a, cache) ==
    LET officialStatus == getOfficialStatus(cache, heap[a].type)
    IN  IF officialStatus = "absent" THEN [heap |-> heap, ref |-> a]
        ELSE [heap |-> [heap EXCEPT ![a].officialStatus = officialStatus],
              ref |-> a]

\* [...items].sort((a, b) => b.checkedAt - a.checkedAt): a new array of the
\* same objects
SortedRefs(heap, items) ==
    SortSeq(items, LAMBDA x, y : heap[x].checkedAt > heap[y].checkedAt)

NoAttach ==
    [pc |-> "idle", variant |-> "none", before |-> <<>>, heap |-> <<>>,
     input |-> <<>>, cache |-> [t \in ProviderTypes |-> "absent"],
     items |-> <<>>, latest |-> 0]

----------------------------------------------------------------------------
(* The vendor client caches                                                *)

MaxClientCalls == 2

\* DEFAULT_ENDPOINTS[type], as the comments of the derive functions give them
DEFAULT_ENDPOINTS(type) ==
    IF type = "anthropic"
    THEN <<"https://", "api.anthropic.com", "/v1", "/messages">>
    ELSE <<"https://", "api.openai.com", "/v1", "/chat/completions">>

\* str.indexOf(word), 0 when absent
indexOf(str, word) ==
    IF includes(str, word)
    THEN CHOOSE i \in DOMAIN str :
             str[i] = word /\ \A j \in 1..(i - 1) : str[j] # word
    ELSE 0

\* raw.split("?")[0]
withoutQuery(raw) ==
    IF includes(raw, "?") THEN SubSeq(raw, 1, indexOf(raw, "?") - 1) ELSE raw

\* str.replace(/\/$/, "")
dropTrailingSlash(str) ==
    IF str # <<>> /\ str[Len(str)] = "/" THEN SubSeq(str, 1, Len(str) - 1)
    ELSE str

\* deriveAnthropicBaseURL (anthropic.ts 60-66):
\* withoutQuery.replace(/\/v1\/messages\/?$/, "")
deriveAnthropicBaseURL(endpoint) ==
    LET raw == IF endpoint = <<>> THEN DEFAULT_ENDPOINTS("anthropic") ELSE endpoint
        base == dropTrailingSlash(withoutQuery(raw))
        n == Len(base)
    IN  IF n >= 2 /\ base[n - 1] = "/v1" /\ base[n] = "/messages"
        THEN SubSeq(base, 1, n - 2)
        ELSE withoutQuery(raw)

\* deriveAnthropicBaseURL as part_004 47-69 has it
deriveAnthropicBaseURL_Old(endpoint) ==
    LET raw == IF endpoint = <<>> THEN DEFAULT_ENDPOINTS("anthropic") ELSE endpoint
        wq == withoutQuery(raw)
        at == CHOOSE i \in 0..Len(wq) :
                  /\ i = 0 \/ (i < Len(wq) /\ wq[i] = "/v1" /\ wq[i + 1] = "/messages")
                  /\ \A j \in 1..(i - 1) :
                         ~(j < Len(wq) /\ wq[j] = "/v1" /\ wq[j + 1] = "/messages")
                  /\ i = 0 =>
                         \A j \in 1..(Len(wq) - 1) :
                             ~(wq[j] = "/v1" /\ wq[j + 1] = "/messages")
        base == IF at = 0 THEN wq ELSE SubSeq(wq, 1, at - 1)
    IN  IF includes(base, "api.anthropic.com") /\ ~includes(base, "/v1")
        THEN dropTrailingSlash(base) \o <<"/v1">>
        ELSE base

\* deriveOpenAIBaseURL (part_005 172-196)
deriveOpenAIBaseURL(endpoint) ==
    LET raw == IF endpoint = <<>> THEN DEFAULT_ENDPOINTS("openai") ELSE endpoint
        wq == withoutQuery(raw)
        base == IF includes(wq, "/chat/completions")
                THEN SubSeq(wq, 1, indexOf(wq, "/chat/completions") - 1)
                ELSE wq
    IN  IF includes(base, "/v1") THEN SubSeq(base, 1, indexOf(base, "/v1"))
        ELSE IF includes(base, "api.openai.com")
             THEN dropTrailingSlash(base) \o <<"/v1">>
        ELSE base

\* a requestHeaders object: null, or its properties in insertion order
NullHeaders == [isNull |-> TRUE, entries |-> <<>>]

HeaderObjects ==
    {NullHeaders,
     [isNull |-> FALSE, entries |-> << <<"A", "1">> >>],
     [isNull |-> FALSE, entries |-> << <<"A", "1">>, <<"B", "2">> >>],
     [isNull |-> FALSE, entries |-> << <<"B", "2">>, <<"A", "1">> >>]}

\* the properties of config.requestHeaders || {}
HeaderPairs(headers) == Range(headers.entries)

\* the order of property names under Array.prototype.sort
KeyRank(key) == IF key = "A" THEN 1 ELSE 2

\* stableStringify(value): JSON with the keys of an object in sorted order
stableStringify(headers) ==
    IF headers.isNull THEN <<"null">>
    ELSE LET sorted == SortSeq(headers.entries, LAMBDA x, y : KeyRank(x[1]) < KeyRank(y[1]))
             RECURSIVE Flat(_)
             Flat(es) == IF es = <<>> THEN <<>>
                         ELSE <<Head(es)[1], ":", Head(es)[2], ",">> \o Flat(Tail(es))
         IN  <<"{">> \o Flat(sorted) \o <<"}">>

ClientGetters == {"getAnthropicClient", "getOpenAIClient", "getAnthropicClient_Old"}

\* the baseURL a getter derives from config.endpoint
baseURLOf(getter, config) ==
    IF getter = "getAnthropicClient" THEN deriveAnthropicBaseURL(config.endpoint)
    ELSE IF getter = "getOpenAIClient" THEN deriveOpenAIBaseURL(config.endpoint)
    ELSE deriveAnthropicBaseURL_Old(config.endpoint)

\* `${baseURL}::${config.apiKey}::${headersKey}` (anthropic.ts 75),
\* `${baseURL}::${config.apiKey}` (part_005 203, part_004 76)
cacheKeyOf(getter, config) ==
    IF getter = "getAnthropicClient"
    THEN baseURLOf(getter, config) \o <<"::">> \o config.apiKey \o <<"::">>
             \o stableStringify(config.requestHeaders)
    ELSE baseURLOf(getter, config) \o <<"::">> \o config.apiKey

\* new Anthropic({...}) / new OpenAI({...}): what the client is created with
newClient(getter, config, serial) ==
    [serial |-> serial,
     baseURL |-> baseURLOf(getter, config),
     apiKey |-> config.apiKey,
     headers |-> IF getter = "getAnthropicClient"
                 THEN HeaderPairs(config.requestHeaders)
                 ELSE {}]

NoClients ==
    [cache |-> [g \in ClientGetters |-> {}], uses |-> <<>>, created |-> 0]

----------------------------------------------------------------------------
(* loadSnapshotForScope                                                    *)

NoScope ==
    [owner |-> "", cacheKey |-> <<>>, pollIntervalMs |-> 0, activeConfigs |-> {},
     allowedIds |-> {}]

IdleCall ==
    [pc |-> "idle", scope |-> NoScope, refreshMode |-> "never",
     history |-> Undefined, readEmpty |-> TRUE, via |-> "none", inflight |-> 0,
     installed |-> FALSE, window |-> 0]

UnusedBatch ==
    [stage |-> "unused", scope |-> NoScope, results |-> <<>>,
     deleteIds |-> {}, appended |-> "no", value |-> Undefined]

IdlePage ==
    [pc |-> "idle", endpoint |-> "none", targetGroupName |-> "",
     refreshMode |-> "never", loadFailed |-> FALSE, allConfigs |-> <<>>,
     history |-> <<>>, maintenanceConfigs |-> <<>>, scope |-> NoScope,
     storeAccess |-> FALSE, probed |-> FALSE, data |-> NoData,
     response |-> NoResponse]

\* mutant: the early return of line 324 is missing
ScopeIsEmpty_Never(scope) == FALSE

\* line 324: if (scope.allowedIds.size === 0) return {}
ScopeIsEmpty(scope) == scope.allowedIds = {}

\* mutant: "never" is treated like "always"
ShouldRefresh_NeverRefreshes(refreshMode, scope, history) ==
    \/ refreshMode # "missing"
    \/ /\ scope.activeConfigs # {}
       /\ ObjectKeys(history) = {}

\* mutant: "missing" does not look at the history it read
ShouldRefresh_MissingAlways(refreshMode, scope, history) ==
    \/ refreshMode = "always"
    \/ /\ refreshMode = "missing"
       /\ scope.activeConfigs # {}

\* lines 368-376: which calls enter refreshHistory
ShouldRefresh(refreshMode, scope, history) ==
    \/ refreshMode = "always"
    \/ /\ refreshMode = "missing"
       /\ scope.activeConfigs # {}
       /\ ObjectKeys(history) = {}

\* mutant: the window is one clock unit short
IsFresh_ShortWindow(entry, clock, interval) ==
    /\ IsDefined(entry.history)
    /\ clock - entry.lastPingAt < interval - 1

\* mutant: a cached history is returned whatever its age
IsFresh_NoExpiry(entry, clock, interval) == IsDefined(entry.history)

\* lines 336-339: the freshness window
IsFresh(entry, clock, interval) ==
    /\ IsDefined(entry.history)
    /\ clock - entry.lastPingAt < interval

\* mutant: the inflight promise is never returned
HasInflight_NoCoalescing(entry) == FALSE

\* mutant: the inflight promise is returned only once a history is cached
HasInflight_OnlyWithHistory(entry) ==
    entry.inflight # 0 /\ IsDefined(entry.history)

\* line 343: if (cacheEntry.inflight)
HasInflight(entry) == entry.inflight # 0

\* mutant: lastPingAt is taken from the newest entry of the history read
\* back (0 when there is none) instead of the clock
PingStamp_FromHistory(clock, nextHistory) ==
    LET stamps == {nextHistory.rings[id][1].checked_at : id \in ObjectKeys(nextHistory)}
    IN  IF stamps = {} THEN 0
        ELSE CHOOSE t \in stamps : \A u \in stamps : u <= t

\* line 352: cacheEntry.lastPingAt = Date.now()
PingStamp(clock, nextHistory) == clock

\* the refreshes of a key that have settled so far
SettledCount(key) ==
    Cardinality({b \in Callers :
        batches[b].stage = "fulfilled" /\ batches[b].scope.cacheKey = key})

PrefillTable(k) ==
    [i \in 1..k |-> [id |-> i, config_id |-> "a", checked_at |-> 1 - i]]

\* check_history when the process starts: nothing, or a full ring of "a" and
\* one older row of "m", stored before that config was put in maintenance
InitialTable(k) ==
    IF k = 0 THEN <<>>
    ELSE PrefillTable(k) \o <<[id |-> k + 1, config_id |-> "m", checked_at |-> 0 - k]>>

Init ==
    /\ now = 1
    /\ table \in {InitialTable(k) : k \in Prefills}
    /\ pingCache = [key \in CacheKeys |-> AbsentEntry]
    /\ calls = [c \in Callers |-> IdleCall]
    /\ batches = [b \in Callers |-> UnusedBatch]
    /\ probe = IdleProbe
    /\ page = IdlePage
    /\ poller = IdlePoller
    /\ ticker = IdleTicker
    /\ summary = NoSummary
    /\ outbound = NoOutbound
    /\ store = NoStore
    /\ attach = NoAttach
    /\ clients = NoClients

\* lines 320-328: the call up to its first await
Invoke(c, scope, refreshMode) ==
    /\ calls[c].pc = "idle"
    /\ c > 1 => calls[c - 1].pc # "idle"
    /\ IF ScopeIsEmpty(scope)
       THEN /\ calls' = [calls EXCEPT ![c] =
                    [IdleCall EXCEPT !.pc = "done", !.scope = scope,
                        !.refreshMode = refreshMode,
                        !.history = EmptyObject("literal", c)]]
            /\ UNCHANGED pingCache
       ELSE /\ calls' = [calls EXCEPT ![c] =
                    [IdleCall EXCEPT !.pc = "reading", !.scope = scope,
                        !.refreshMode = refreshMode]]
            /\ pingCache' = getPingCacheEntry(pingCache, scope.cacheKey)
    /\ UNCHANGED <<now, table, batches, probe, page, poller, ticker, summary, outbound, store, attach, clients>>

\* lines 366-378 with refreshHistory (330-358) up to its await: the answer of
\* the first read arrives and the call decides
ReadReturn(c, outcome) ==
    /\ calls[c].pc = "reading"
    /\ LET scope == calls[c].scope
           key == scope.cacheKey
           cacheEntry == pingCache[key]
           history == readHistoryForScope(table, scope, outcome, <<"fetch", c>>)
           window == SettledCount(key)
       IN  IF ~ShouldRefresh(calls[c].refreshMode, scope, history)
           THEN /\ calls' = [calls EXCEPT ![c].pc = "done",
                                ![c].history = history, ![c].via = "read",
                                ![c].readEmpty = ObjectKeys(history) = {}]
                /\ UNCHANGED <<pingCache, batches>>
           ELSE IF scope.activeConfigs = {}
           THEN /\ calls' = [calls EXCEPT ![c].pc = "done",
                                ![c].history = EmptyObject("noactive", c),
                                ![c].via = "noactive",
                                ![c].readEmpty = ObjectKeys(history) = {}]
                /\ UNCHANGED <<pingCache, batches>>
           ELSE IF IsFresh(cacheEntry, now, scope.pollIntervalMs)
           THEN /\ calls' = [calls EXCEPT ![c].pc = "done",
                                ![c].history = cacheEntry.history,
                                ![c].via = "cached", ![c].window = window,
                                ![c].readEmpty = ObjectKeys(history) = {}]
                /\ UNCHANGED <<pingCache, batches>>
           ELSE IF HasInflight(cacheEntry)
           THEN /\ calls' = [calls EXCEPT ![c].pc = "awaiting",
                                ![c].inflight = cacheEntry.inflight,
                                ![c].via = "coalesced", ![c].window = window,
                                ![c].readEmpty = ObjectKeys(history) = {}]
                /\ UNCHANGED <<pingCache, batches>>
           ELSE /\ calls' = [calls EXCEPT ![c].pc = "awaiting",
                                ![c].inflight = c, ![c].installed = TRUE,
                                ![c].via = "started", ![c].window = window,
                                ![c].readEmpty = ObjectKeys(history) = {}]
                /\ batches' = [batches EXCEPT ![c] =
                        [UnusedBatch EXCEPT !.stage = "probing", !.scope = scope]]
                /\ pingCache' = [pingCache EXCEPT ![key].inflight = c]
    /\ UNCHANGED <<now, table, probe, page, poller, ticker, summary, outbound, store, attach, clients>>

\* mutant: the results are not appended before the re-read
ProbesResolve_SkipsAppend(b) ==
    /\ batches[b].stage = "probing"
    /\ batches' = [batches EXCEPT ![b].stage = "rereading"]
    /\ UNCHANGED <<now, table, pingCache, calls, probe, page, poller, ticker, summary, outbound, store, attach, clients>>

\* line 348, then append() up to its insert (history.ts 67-82)
ProbesResolve(b) ==
    /\ batches[b].stage = "probing"
    /\ \E statusOf \in [{cfg.id : cfg \in batches[b].scope.activeConfigs}
                              -> ProbeStatuses] :
       LET results ==
               runProviderChecks(batches[b].scope.activeConfigs, now, statusOf)
       IN  batches' = [batches EXCEPT ![b].results = results,
                          ![b].stage = IF results = <<>> THEN "rereading"
                                       ELSE "inserting"]
    /\ UNCHANGED <<now, table, pingCache, calls, probe, page, poller, ticker, summary, outbound, store, attach, clients>>

\* mutant: prune runs after a failed insert too
Insert_PrunesAfterFailure(b, ok) ==
    /\ batches[b].stage = "inserting"
    /\ table' = IF ok THEN InsertRecords(table, AppendRecords(batches[b].results, b))
                ELSE table
    /\ batches' = [batches EXCEPT ![b].stage = "pruning", ![b].results = <<>>]
    /\ UNCHANGED <<now, pingCache, calls, probe, page, poller, ticker, summary, outbound, store, attach, clients>>

\* history.ts 82-88: the insert answers
Insert(b, ok) ==
    /\ batches[b].stage = "inserting"
    /\ IF ok
       THEN /\ table' = InsertRecords(table, AppendRecords(batches[b].results, b))
            /\ batches' = [batches EXCEPT ![b].stage = "pruning",
                                          ![b].results = <<>>]
       ELSE /\ table' = table
            /\ batches' = [batches EXCEPT ![b].stage = "rereading",
                                          ![b].results = <<>>,
                                          ![b].appended = "failed"]
    /\ UNCHANGED <<now, pingCache, calls, probe, page, poller, ticker, summary, outbound, store, attach, clients>>

PruneOutcomes == {"ok", "missing", "error"}

\* pruneInternal (history.ts 96-110): the stored procedure answers
Prune(b, outcome) ==
    /\ batches[b].stage = "pruning"
    /\ IF outcome = "ok"
       THEN /\ table' = RpcPruneHistory(table, MAX_POINTS_PER_PROVIDER)
            /\ batches' = [batches EXCEPT ![b].stage = "rereading",
                                          ![b].appended = "ok"]
       ELSE IF outcome = "missing"
       THEN /\ table' = table
            /\ batches' = [batches EXCEPT ![b].stage = "fb_select"]
       ELSE /\ table' = table
            /\ batches' = [batches EXCEPT ![b].stage = "rereading",
                                          ![b].appended = "failed"]
    /\ UNCHANGED <<now, pingCache, calls, probe, page, poller, ticker, summary, outbound, store, attach, clients>>

\* fallbackPruneHistory (history.ts 279-305): its query answers
FallbackSelect(b, ok) ==
    /\ batches[b].stage = "fb_select"
    /\ LET deleteIds == fallbackDeleteIds(table, MAX_POINTS_PER_PROVIDER)
       IN  IF ~ok
           THEN batches' = [batches EXCEPT ![b].stage = "rereading",
                                           ![b].appended = "failed"]
           ELSE IF deleteIds = {}
           THEN batches' = [batches EXCEPT ![b].stage = "rereading",
                                           ![b].appended = "ok"]
           ELSE batches' = [batches EXCEPT ![b].stage = "fb_delete",
                                           ![b].deleteIds = deleteIds]
    /\ UNCHANGED <<now, table, pingCache, calls, probe, page, poller, ticker, summary, outbound, store, attach, clients>>

\* fallbackPruneHistory (history.ts 307-314): its delete answers
FallbackDelete(b, ok) ==
    /\ batches[b].stage = "fb_delete"
    /\ IF ok
       THEN /\ table' = DeleteIn(table, batches[b].deleteIds)
            /\ batches' = [batches EXCEPT ![b].stage = "rereading",
                                          ![b].deleteIds = {},
                                          ![b].appended = "ok"]
       ELSE /\ table' = table
            /\ batches' = [batches EXCEPT ![b].stage = "rereading",
                                          ![b].deleteIds = {},
                                          ![b].appended = "failed"]
    /\ UNCHANGED <<now, pingCache, calls, probe, page, poller, ticker, summary, outbound, store, attach, clients>>

\* lines 350-353: the re-read answers, the entry is updated and the
\* inflightPromise fulfils
Reread(b, outcome) ==
    /\ batches[b].stage = "rereading"
    /\ LET scope == batches[b].scope
           key == scope.cacheKey
           nextHistory ==
               readHistoryForScope(table, scope, outcome, <<"refresh", b>>)
       IN  /\ pingCache' = [pingCache EXCEPT
                   ![key].history = nextHistory,
                   ![key].lastPingAt = PingStamp(now, nextHistory)]
           /\ batches' = [batches EXCEPT ![b].stage = "fulfilled",
                                         ![b].appended = "no",
                                         ![b].value = nextHistory]
    /\ UNCHANGED <<now, table, calls, probe, page, poller, ticker, summary, outbound, store, attach, clients>>

\* mutant: every caller that awaited the promise clears it
OwnsInflight_AnyCaller(call, entry) == entry.inflight = call.inflight

\* lines 359-362: the finally of the call that installed the promise, and
\* its test cacheEntry.inflight === inflightPromise
OwnsInflight(call, entry) ==
    call.installed /\ entry.inflight = call.inflight

\* mutant: a rejected promise never wakes the calls that await it
Settled_OnlyFulfilled(b) == batches[b].stage = "fulfilled"

Settled(b) == batches[b].stage \in {"fulfilled", "rejected"}

\* lines 358-363 for the call that installed the promise, line 344 for the
\* calls that returned it: the awaited promise has settled, and the call
\* returns its value or rejects with its reason
Resume(c) ==
    /\ calls[c].pc = "awaiting"
    /\ Settled(calls[c].inflight)
    /\ LET key == calls[c].scope.cacheKey
       IN  /\ calls' =
                IF batches[calls[c].inflight].stage = "fulfilled"
                THEN [calls EXCEPT ![c].pc = "done",
                         ![c].history = batches[calls[c].inflight].value]
                ELSE [calls EXCEPT ![c].pc = "rejected"]
           /\ pingCache' =
                IF OwnsInflight(calls[c], pingCache[key])
                THEN [pingCache EXCEPT ![key].inflight = 0]
                ELSE pingCache
    /\ UNCHANGED <<now, table, batches, probe, page, poller, ticker, summary, outbound, store, attach, clients>>

\* a promise that has settled, whose installer has not run its finally yet
FinallyPending ==
    \E c \in Callers :
        /\ calls[c].pc = "awaiting"
        /\ calls[c].installed
        /\ Settled(c)

\* the clock advances; the installer's continuation runs in the microtask
\* that follows the fulfilment, before the clock can move
Tick ==
    /\ now < MaxClock
    /\ ~FinallyPending
    /\ now' = now + 1
    /\ UNCHANGED <<table, pingCache, calls, batches, probe, page, poller, ticker, summary, outbound, store, attach, clients>>

Next ==
    \/ \E c \in Callers, scope \in Scopes, refreshMode \in RefreshModes :
          Invoke(c, scope, refreshMode)
    \/ \E c \in Callers, outcome \in FetchOutcomes : ReadReturn(c, outcome)
    \/ \E b \in Callers : ProbesResolve(b)
    \/ \E b \in Callers, ok \in BOOLEAN : Insert(b, ok)
    \/ \E b \in Callers, outcome \in PruneOutcomes : Prune(b, outcome)
    \/ \E b \in Callers, ok \in BOOLEAN : FallbackSelect(b, ok)
    \/ \E b \in Callers, ok \in BOOLEAN : FallbackDelete(b, ok)
    \/ \E b \in Callers, outcome \in FetchOutcomes : Reread(b, outcome)
    \/ \E c \in Callers : Resume(c)
    \/ Tick

Spec == Init /\ [][Next]_vars

----------------------------------------------------------------------------
(* The refresh with a store call that throws                               *)

\* an await of the inflightPromise throws: createClient() or the insert in
\* append (history.ts 72-82), the rpc of pruneInternal (100), createClient()
\* or the rpc of fetch (47-54); lines 351-353 are not reached and the
\* inflightPromise rejects
RefreshRejects(b) ==
    /\ batches[b].stage \in {"inserting", "pruning", "rereading"}
    /\ batches' = [batches EXCEPT ![b].stage = "rejected",
                                  ![b].results = <<>>,
                                  ![b].appended = "no"]
    /\ UNCHANGED <<now, table, pingCache, calls, probe, page, poller, ticker, summary, outbound, store, attach, clients>>

RejectNext ==
    \/ Next
    \/ \E b \in Callers : RefreshRejects(b)

RejectSpec == Init /\ [][RejectNext]_vars

\* a pending probe batch or store operation completes, or a call whose
\* promise has settled resumes
Completion ==
    \/ \E c \in Callers, outcome \in FetchOutcomes : ReadReturn(c, outcome)
    \/ \E b \in Callers : ProbesResolve(b)
    \/ \E b \in Callers, ok \in BOOLEAN : Insert(b, ok)
    \/ \E b \in Callers, outcome \in PruneOutcomes : Prune(b, outcome)
    \/ \E b \in Callers, ok \in BOOLEAN : FallbackSelect(b, ok)
    \/ \E b \in Callers, ok \in BOOLEAN : FallbackDelete(b, ok)
    \/ \E b \in Callers, outcome \in FetchOutcomes : Reread(b, outcome)
    \/ \E b \in Callers : RefreshRejects(b)
    \/ \E c \in Callers : Resume(c)

\* the callers of one scope, the dashboard: they share one cache key, so that
\* every refresh is one the other caller may find inflight
LiveNext ==
    \/ \E c \in Callers, refreshMode \in RefreshModes :
          Invoke(c, DashboardScope, refreshMode)
    \/ Completion
    \/ Tick

\* every probe and every store operation eventually completes, by resolving
\* or by throwing
LiveSpec == Init /\ [][LiveNext]_vars /\ WF_vars(Completion)

----------------------------------------------------------------------------
(* One probe run.  Each action is the code between two awaits.             *)

NotProbe == <<now, table, pingCache, calls, batches, page, poller, ticker, summary, outbound, store, attach, clients>>

ProbePending == probe.pc \in {"request", "error_body", "stream", "ping"}

\* the catch branch up to its await of pingPromise
ProbeCatch(error) ==
    [probe EXCEPT !.pc = "ping",
                  !.path = IF probe.aborted THEN "aborted" ELSE "catch",
                  !.result = [NoResult EXCEPT
                      !.status = "failed",
                      !.latencyMs = Null,
                      !.message = CatchMessage(probe.kind, error)]]

\* the probe is called: controller, timer, startedAt, pingPromise, request
ProbeStart(kind) ==
    /\ probe.pc = "idle"
    /\ probe' = [IdleProbe EXCEPT !.pc = "request", !.kind = kind]
    /\ UNCHANGED NotProbe

\* time passes while the probe waits
ProbeElapse(t) ==
    /\ ProbePending
    /\ t > probe.elapsed
    /\ probe' = [probe EXCEPT !.elapsed = t]
    /\ UNCHANGED NotProbe

\* setTimeout(() => controller.abort(), DEFAULT_TIMEOUT_MS) fires
ProbeDeadline ==
    /\ ProbePending
    /\ ~probe.aborted
    /\ probe.elapsed >= DEFAULT_TIMEOUT_MS(probe.kind)
    /\ probe' = [probe EXCEPT !.aborted = TRUE]
    /\ UNCHANGED NotProbe

\* fetch(...) / client.messages.create(...) / client.chat.completions
\* .create(...) settles
ProbeRequestSettles(outcome, error) ==
    /\ probe.pc = "request"
    /\ IF probe.aborted
       THEN /\ outcome = "throws"
            /\ error \in AbortErrors(probe.kind)
            /\ probe' = ProbeCatch(error)
       ELSE CASE outcome = "ok" ->
                    /\ error = FetchAbortError
                    /\ probe' = [probe EXCEPT !.pc = "stream"]
              [] outcome = "not_ok" ->
                    /\ error = FetchAbortError
                    /\ probe.kind = "stream"
                    /\ probe' = [probe EXCEPT
                           !.pc = "error_body", !.path = "http_error",
                           !.result.latencyMs = Number(probe.elapsed)]
              [] outcome = "no_body" ->
                    /\ error = FetchAbortError
                    /\ probe.kind = "stream"
                    /\ probe' = ProbeCatch([name |-> "Error",
                                            message |-> MSG_EMPTY_BODY,
                                            userAbort |-> FALSE])
              [] outcome = "throws" ->
                    /\ error \in OtherErrors
                    /\ probe' = ProbeCatch(error)
    /\ UNCHANGED NotProbe

\* stream-check.ts 72-75: response.text() settles
ProbeErrorBody(extracted, code, error) ==
    /\ probe.pc = "error_body"
    /\ IF probe.aborted
       THEN /\ error = FetchAbortError
            /\ probe' = ProbeCatch(error)
       ELSE \/ /\ error = FetchAbortError
               /\ probe' = [probe EXCEPT
                      !.pc = "ping",
                      !.result.status = "failed",
                      !.result.message = HttpErrorMessage(extracted, code)]
            \/ /\ error \in OtherErrors
               /\ probe' = ProbeCatch(error)
    /\ UNCHANGED NotProbe

\* the first stream event arrives (parseStream, iterator.next(), for await),
\* or the stream throws
ProbeStreamSettles(outcome, error) ==
    /\ probe.pc = "stream"
    /\ IF probe.aborted
       THEN /\ outcome = "throws"
            /\ error \in AbortErrors(probe.kind)
            /\ probe' = ProbeCatch(error)
       ELSE \/ /\ outcome = "ok"
               /\ error = FetchAbortError
               /\ LET latencyMs == probe.elapsed
                      status == ClassifyLatency(latencyMs)
                  IN  probe' = [probe EXCEPT
                          !.pc = "ping", !.path = "success", !.sawEvent = TRUE,
                          !.result.status = status,
                          !.result.latencyMs = Number(latencyMs),
                          !.result.message = SuccessMessage(status, latencyMs)]
            \/ /\ outcome = "throws"
               /\ error \in OtherErrors
               /\ probe' = ProbeCatch(error)
    /\ UNCHANGED NotProbe

PingSamples == {40}

\* await pingPromise, the return and the finally; a rejection of
\* pingPromise inside the try reaches the catch, whose own await of
\* pingPromise rejects again
ProbePingSettles(outcome, t) ==
    /\ probe.pc = "ping"
    /\ LET ping == measureEndpointPing(outcome, t)
       IN  IF ping.rejects
           THEN probe' = [probe EXCEPT !.pc = "done", !.rejected = TRUE,
                                       !.result = NoResult]
           ELSE probe' = [probe EXCEPT !.pc = "done",
                                       !.result.pingLatencyMs = ping.value]
    /\ UNCHANGED NotProbe

RequestOutcomes == {"ok", "not_ok", "no_body", "throws"}
ThrownErrors == {FetchAbortError, SdkAbortError} \cup OtherErrors
ExtractedMessages == {<<>>, <<"quota exceeded">>}
HttpCodes == {429, 500}

ProbeNext ==
    \/ \E kind \in ProbeKinds : ProbeStart(kind)
    \/ \E t \in ElapsedSamples : ProbeElapse(t)
    \/ ProbeDeadline
    \/ \E outcome \in RequestOutcomes, error \in ThrownErrors :
          ProbeRequestSettles(outcome, error)
    \/ \E extracted \in ExtractedMessages, code \in HttpCodes,
          error \in ThrownErrors : ProbeErrorBody(extracted, code, error)
    \/ \E outcome \in {"ok", "throws"}, error \in ThrownErrors :
          ProbeStreamSettles(outcome, error)
    \/ \E outcome \in PingOutcomes, t \in PingSamples : ProbePingSettles(outcome, t)

ProbeSpec == Init /\ [][ProbeNext]_vars


----------------------------------------------------------------------------
(* One run of a read endpoint: GET /api/dashboard -> loadDashboardData,    *)
(* GET /api/group/[groupName] -> loadGroupDashboardData.  Each action is   *)
(* the code between two awaits.                                            *)

MaxItems == 2

NotPage == <<now, table, pingCache, calls, batches, probe, poller, ticker, summary, outbound, store, attach, clients>>

Endpoints == {"dashboard", "group"}

\* the rows of check_configs whose id is in sel, ordered by id
ConfigRows(sel) == SelectSeq(CheckConfigRows, LAMBDA row : row.id \in sel)

\* the histories the store can hold for ids: up to MaxItems results per id
HistoryCounts(ids) ==
    {count \in [PageConfigIds -> 0..MaxItems] :
        \A id \in PageConfigIds \ ids : count[id] = 0}

PageFinish(data, history, maintenanceConfigs, scope, allConfigs, loadFailed, storeAccess, probed) ==
    page' = [page EXCEPT !.pc = "done", !.data = data, !.history = history,
                         !.maintenanceConfigs = maintenanceConfigs,
                         !.scope = scope, !.allConfigs = allConfigs,
                         !.loadFailed = loadFailed,
                         !.storeAccess = storeAccess, !.probed = probed,
                         !.response = RouteResponse(data)]

\* the request arrives; the loader awaits loadProviderConfigsFromDB()
PageStart(endpoint, targetGroupName, refreshMode) ==
    /\ page.pc = "idle"
    /\ endpoint = "dashboard" => targetGroupName = ""
    /\ endpoint = "group" => targetGroupName \in GroupNames
    /\ page' = [IdlePage EXCEPT !.pc = "configs", !.endpoint = endpoint,
                                !.targetGroupName = targetGroupName,
                                !.refreshMode = refreshMode]
    /\ UNCHANGED NotPage

\* the configs arrive: filter, scope, and the call of loadSnapshotForScope,
\* which returns {} without a further await when the scope is empty
PageConfigsLoaded(outcome, sel) ==
    /\ page.pc = "configs"
    /\ LET allConfigs == loadProviderConfigsFromDB(outcome, ConfigRows(sel))
           inScope == IF page.endpoint = "group"
                      THEN FilterGroup(allConfigs, page.targetGroupName)
                      ELSE allConfigs
           maintenanceConfigs ==
               SelectSeq(inScope, LAMBDA cfg : cfg.is_maintenance)
           scope == BuildScope(IF page.endpoint = "group"
                               THEN "group:" \o page.targetGroupName
                               ELSE "dashboard", Range(inScope))
       IN  IF page.endpoint = "group" /\ inScope = <<>>
           THEN PageFinish(NoData, <<>>, <<>>, NoScope, allConfigs,
                           outcome # "ok", FALSE, FALSE)
           ELSE IF ScopeIsEmpty(scope)
           THEN PageFinish(AssembleData(page.endpoint, page.targetGroupName,
                                        <<>>, maintenanceConfigs, now),
                           <<>>, maintenanceConfigs, scope, allConfigs,
                           outcome # "ok", FALSE, FALSE)
           ELSE page' = [page EXCEPT !.pc = "snapshot",
                                     !.allConfigs = allConfigs,
                                     !.loadFailed = outcome # "ok",
                                     !.maintenanceConfigs = maintenanceConfigs,
                                     !.scope = scope]
    /\ UNCHANGED NotPage

\* loadSnapshotForScope(scope, refreshMode) returns the history of the
\* scope's ids, after a probe batch or not
PageSnapshotReturns(count, probed) ==
    /\ page.pc = "snapshot"
    /\ count \in HistoryCounts(page.scope.allowedIds)
    /\ page.refreshMode = "never" => ~probed
    /\ LET history == HistoryEntries(
                          SelectSeq(page.allConfigs,
                              LAMBDA cfg : cfg.id \in page.scope.allowedIds),
                          count)
       IN  PageFinish(AssembleData(page.endpoint, page.targetGroupName,
                                   history, page.maintenanceConfigs, now),
                      history, page.maintenanceConfigs, page.scope,
                      page.allConfigs, page.loadFailed, TRUE, probed)
    /\ UNCHANGED NotPage

PageNext ==
    \/ \E endpoint \in Endpoints, targetGroupName \in GroupNames \cup {""},
          refreshMode \in RefreshModes :
          PageStart(endpoint, targetGroupName, refreshMode)
    \/ \E outcome \in LoadOutcomes, sel \in SUBSET PageConfigIds :
          PageConfigsLoaded(outcome, sel)
    \/ \E count \in HistoryCounts(PageConfigIds), probed \in BOOLEAN :
          PageSnapshotReturns(count, probed)

PageSpec == Init /\ [][PageNext]_vars

----------------------------------------------------------------------------
(* buildProviderTimelines as a function of its two arguments               *)

\* buildProviderTimelines is applied to a history over any ids and to any
\* list of maintenance configs
TimelinesBuilt(count, sel) ==
    /\ page.pc = "idle"
    /\ LET history == HistoryEntries(CheckConfigRows, count)
           maintenanceConfigs ==
               SelectSeq(ConfigRows(sel), LAMBDA cfg : cfg.is_maintenance)
       IN  page' = [IdlePage EXCEPT
               !.pc = "built",
               !.history = history,
               !.maintenanceConfigs = maintenanceConfigs,
               !.data = [NoData EXCEPT
                   !.isNull = FALSE,
                   !.providerTimelines =
                       buildProviderTimelines(history, maintenanceConfigs, now),
                   !.total = Len(buildProviderTimelines(history,
                                     maintenanceConfigs, now))]]
    /\ UNCHANGED NotPage

TimelinesNext ==
    \E count \in HistoryCounts(PageConfigIds), sel \in SUBSET PageConfigIds :
        TimelinesBuilt(count, sel)

TimelinesSpec == Init /\ [][TimelinesNext]_vars

----------------------------------------------------------------------------
(* The official-status poller: every action is one synchronous handler.    *)

NotPoller == <<now, table, pingCache, calls, batches, probe, page, ticker, summary, outbound, store, attach, clients>>

PollerStep(p, last) ==
    /\ poller' = [p EXCEPT !.ops = poller.ops + 1, !.last = last]
    /\ UNCHANGED NotPoller

\* startOfficialStatusPoller() is called
PollerStart ==
    /\ poller.ops < MaxPollerOps
    /\ PollerStep([startOfficialStatusPoller(poller) EXCEPT !.calls = @ + 1],
                  IF getOfficialStatusTimer(poller) THEN "start_noop" ELSE "start")

\* ensureOfficialStatusPoller() is called (loadDashboardData,
\* loadGroupDashboardData)
PollerEnsure ==
    /\ poller.ops < MaxPollerOps
    /\ PollerStep([ensureOfficialStatusPoller(poller) EXCEPT !.calls = @ + 1],
                  IF poller.timer THEN "ensure_noop" ELSE "ensure")

\* stopOfficialStatusPoller() is called
PollerStop ==
    /\ poller.ops < MaxPollerOps
    /\ PollerStep([stopOfficialStatusPoller(poller) EXCEPT
                      !.calls = 0, !.immediates = 0],
                  IF poller.timer THEN "stop" ELSE "stop_noop")

\* the interval timer fires
PollerTick ==
    /\ poller.ops < MaxPollerOps
    /\ poller.liveTimers > 0
    /\ PollerStep(runOfficialStatusCheck(poller),
                  IF isOfficialStatusPolling(poller) THEN "tick_skip"
                  ELSE "tick_run")

\* checkAllOfficialStatuses settles: the cache update, catch and finally
PollerRunSettles(outcome, result) ==
    /\ poller.ops < MaxPollerOps
    /\ poller.executing > 0
    /\ PollerStep(settleOfficialStatusCheck(poller, outcome, result), "settled")

PollerNext ==
    \/ PollerStart
    \/ PollerEnsure
    \/ PollerStop
    \/ PollerTick
    \/ \E outcome \in {"ok", "throws"}, result \in OfficialResults :
          PollerRunSettles(outcome, result)

PollerSpec == Init /\ [][PollerNext]_vars

\* the interval timer fires, as often as it likes
PollerLiveTick ==
    /\ poller.liveTimers > 0
    /\ poller' = [runOfficialStatusCheck(poller) EXCEPT
                     !.last = IF isOfficialStatusPolling(poller)
                              THEN "tick_skip" ELSE "tick_run"]
    /\ UNCHANGED NotPoller

\* checkAllOfficialStatuses settles
PollerLiveRunSettles(outcome, result) ==
    /\ poller.executing > 0
    /\ poller' = [settleOfficialStatusCheck(poller, outcome, result) EXCEPT
                     !.last = IF outcome = "ok" THEN "settled" ELSE "failed"]
    /\ UNCHANGED NotPoller

PollerLiveNext ==
    \/ PollerStart
    \/ PollerEnsure
    \/ PollerStop
    \/ PollerLiveTick
    \/ \E outcome \in {"ok", "throws"}, result \in OfficialResults :
          PollerLiveRunSettles(outcome, result)

\* setInterval keeps firing while the timer is live, and every run of
\* checkAllOfficialStatuses settles
PollerLiveSpec ==
    /\ Init
    /\ [][PollerLiveNext]_vars
    /\ WF_vars(PollerLiveTick)
    /\ WF_vars(\E outcome \in {"ok", "throws"}, result \in OfficialResults :
                   PollerLiveRunSettles(outcome, result))

----------------------------------------------------------------------------
(* The background poller: one immediate run, then a tick every             *)
(* pollIntervalMs; every tick calls loadSnapshotForScope(default scope,    *)
(* "always"), whose refreshHistory decides on the scope's cache entry.     *)

NotTicker == <<now, table, pingCache, calls, batches, probe, page, poller, summary, outbound, store, attach, clients>>

TickDue == ticker.clock % pollIntervalMs = 0 /\ ticker.ticked < ticker.clock

\* time passes; a refresh lasts at most MaxRefreshDuration
TickerAdvance ==
    /\ ticker.clock < MaxTickerClock
    /\ ~TickDue
    /\ HasInflight(ticker.entry) =>
          ticker.clock - ticker.started < MaxRefreshDuration
    /\ ticker' = [ticker EXCEPT !.clock = @ + 1]
    /\ UNCHANGED NotTicker

\* the timer fires: refreshHistory of lines 330-356
TickerTick ==
    /\ TickDue
    /\ LET fresh == IsFresh(ticker.entry, ticker.clock, pollIntervalMs)
           inflight == HasInflight(ticker.entry)
           seen == [ticker EXCEPT !.ticked = ticker.clock,
                                  !.sawFresh = fresh, !.sawInflight = inflight]
       IN  ticker' =
             IF fresh THEN [seen EXCEPT !.decision = "cached"]
             ELSE IF inflight THEN [seen EXCEPT !.decision = "coalesced"]
             ELSE [seen EXCEPT
                     !.decision = "started",
                     !.entry = [ticker.entry EXCEPT !.inflight = 1],
                     !.batches = @ + 1,
                     !.started = ticker.clock,
                     !.duration = ticker.lasted,
                     !.gap = IF ticker.started < 0 THEN 0
                             ELSE ticker.clock - ticker.started]
    /\ UNCHANGED NotTicker

\* the inflight promise settles (lines 347-363)
TickerRefreshSettles(outcome) ==
    /\ HasInflight(ticker.entry)
    /\ ticker' = [ticker EXCEPT
          !.lasted = ticker.clock - ticker.started,
          !.decision = outcome,
          !.entry = IF outcome = "fulfilled"
                    THEN [ticker.entry EXCEPT
                            !.history = EmptyObject("refresh", 1),
                            !.lastPingAt = PingStamp(ticker.clock, @),
                            !.inflight = 0]
                    ELSE [ticker.entry EXCEPT !.inflight = 0]]
    /\ UNCHANGED NotTicker

TickerNext ==
    \/ TickerAdvance
    \/ TickerTick
    \/ \E outcome \in {"fulfilled", "rejected"} : TickerRefreshSettles(outcome)

TickerSpec == Init /\ [][TickerNext]_vars

----------------------------------------------------------------------------
(* parseAnthropicSummary as a function of the summary it is given          *)

NotSummary == <<now, table, pingCache, calls, batches, probe, page, poller, ticker, outbound, store, attach, clients>>

SummaryParsed(indicator, components) ==
    /\ summary.pc = "idle"
    /\ summary' = [pc |-> "parsed", indicator |-> indicator,
                   components |-> components,
                   status |-> parseAnthropicSummary(indicator, components)]
    /\ UNCHANGED NotSummary

SummaryNext ==
    \E indicator \in Indicators, components \in ComponentLists :
        SummaryParsed(indicator, components)

SummarySpec == Init /\ [][SummaryNext]_vars

----------------------------------------------------------------------------
(* The request payload of checkOpenAI as a function of config.model        *)

NotOutbound == <<now, table, pingCache, calls, batches, probe, page, poller, ticker, summary, store, attach, clients>>

PayloadBuilt(model) ==
    /\ outbound.pc = "idle"
    /\ outbound' = [pc |-> "built", configModel |-> model,
                    payload |-> requestPayload(model)]
    /\ UNCHANGED NotOutbound

OutboundNext == \E model \in ModelStrings : PayloadBuilt(model)

OutboundSpec == Init /\ [][OutboundNext]_vars

----------------------------------------------------------------------------
(* One call of SnapshotStore.fetch or SnapshotStore.prune                  *)

NotStore == <<now, table, pingCache, calls, batches, probe, page, poller, ticker, summary, outbound, attach, clients>>

\* the ids the stored procedure and the fallback query are given: null asks
\* for every config
TargetConfigIds(s) == IF s.provided THEN s.allowedIds ELSE ConfigIds

\* fetch, lines 42-52: up to the call of the stored procedure
StoreFetchCalled(provided, ids, k) ==
    /\ store.pc = "idle"
    /\ provided \/ ids = {}
    /\ LET called == [store EXCEPT !.op = "fetch", !.provided = provided,
                                   !.allowedIds = ids,
                                   !.rows = PrefillTable(k),
                                   !.after = PrefillTable(k)]
       IN  IF provided /\ normalizeAllowedIds(ids) = {}
           THEN store' = [called EXCEPT !.pc = "done", !.path = "short",
                                        !.result = EmptyObject("fetch", 1)]
           ELSE store' = [called EXCEPT !.pc = "rpc", !.contacted = TRUE]
    /\ UNCHANGED NotStore

\* fetch, lines 54-64: the stored procedure answers
StoreFetchAnswers(error) ==
    /\ store.pc = "rpc"
    /\ store.op = "fetch"
    /\ LET outcome == FetchOutcomeOf(error)
           answered == [store EXCEPT !.error = error, !.path = outcome]
       IN  IF outcome = "fallback"
           THEN store' = [answered EXCEPT !.pc = "fallback"]
           ELSE store' = [answered EXCEPT
                    !.pc = "done",
                    !.result = fetch(store.rows, TargetConfigIds(store),
                                     outcome, <<"fetch", 1>>)]
    /\ UNCHANGED NotStore

\* fallbackFetchSnapshot: its query answers, or fails and yields {}
StoreFallbackFetchAnswers(ok) ==
    /\ store.pc = "fallback"
    /\ store.op = "fetch"
    /\ store' = [store EXCEPT
            !.pc = "done",
            !.result = IF ok
                       THEN fetch(store.rows, TargetConfigIds(store),
                                  "fallback", <<"fetch", 1>>)
                       ELSE EmptyObject("fetch", 1)]
    /\ UNCHANGED NotStore

\* prune, lines 91-99: up to the call of the stored procedure
StorePruneCalled(k) ==
    /\ store.pc = "idle"
    /\ store' = [store EXCEPT !.op = "prune", !.pc = "rpc",
                              !.contacted = TRUE,
                              !.rows = PrefillTable(k),
                              !.after = PrefillTable(k)]
    /\ UNCHANGED NotStore

\* pruneInternal, lines 100-109: the stored procedure answers
StorePruneAnswers(error) ==
    /\ store.pc = "rpc"
    /\ store.op = "prune"
    /\ LET outcome == PruneOutcomeOf(error)
           answered == [store EXCEPT !.error = error]
       IN  IF outcome = "missing"
           THEN store' = [answered EXCEPT !.pc = "fallback",
                                          !.path = "fallback"]
           ELSE IF outcome = "ok"
           THEN store' = [answered EXCEPT
                    !.pc = "done", !.path = "rpc",
                    !.after = RpcPruneHistory(store.rows, store.limit)]
           ELSE store' = [answered EXCEPT !.pc = "done", !.path = "error"]
    /\ UNCHANGED NotStore

FallbackPruneOutcomes == {"ok", "select_error", "delete_error"}

\* fallbackPruneHistory: its select and its delete answer
StoreFallbackPruneAnswers(outcome) ==
    /\ store.pc = "fallback"
    /\ store.op = "prune"
    /\ store' = [store EXCEPT
            !.pc = "done",
            !.fallback = outcome,
            !.after = IF outcome = "ok"
                      THEN DeleteIn(store.rows,
                               fallbackDeleteIds(store.rows, store.limit))
                      ELSE store.rows]
    /\ UNCHANGED NotStore

StoreNext ==
    \/ \E provided \in BOOLEAN, ids \in AllowedIdsArgs, k \in StoreRowCounts :
           StoreFetchCalled(provided, ids, k)
    \/ \E error \in StoreAnswers : StoreFetchAnswers(error)
    \/ \E ok \in BOOLEAN : StoreFallbackFetchAnswers(ok)
    \/ \E k \in StoreRowCounts : StorePruneCalled(k)
    \/ \E error \in StoreAnswers : StorePruneAnswers(error)
    \/ \E outcome \in FallbackPruneOutcomes : StoreFallbackPruneAnswers(outcome)

StoreSpec == Init /\ [][StoreNext]_vars

----------------------------------------------------------------------------
(* SnapshotStore.prune(limit) on arbitrary contents of check_history        *)

MaxPruneRows == 4

MaxPruneLimit == 3

PruneConfigIds == {"a", "b"}

\* check_history with up to MaxPruneRows rows of two configs, listed newest
\* first; two rows may carry the same checked_at
PruneTables ==
    UNION {{[i \in 1..n |-> [id |-> i, config_id |-> c[i], checked_at |-> t[i]]] :
               c \in [1..n -> PruneConfigIds],
               t \in {u \in [1..n -> 1..2] :
                          \A i \in 1..n, j \in 1..n : i < j => u[i] >= u[j]}} :
           n \in 0..MaxPruneRows}

\* prune(limit), lines 91-102: up to the call of the stored procedure
StorePruneCalledWith(rows, limit) ==
    /\ store.pc = "idle"
    /\ store' = [store EXCEPT !.op = "prune", !.pc = "rpc",
                              !.contacted = TRUE, !.limit = limit,
                              !.rows = rows, !.after = rows]
    /\ UNCHANGED NotStore

PruneNext ==
    \/ \E rows \in PruneTables, limit \in 0..MaxPruneLimit :
           StorePruneCalledWith(rows, limit)
    \/ \E error \in StoreAnswers : StorePruneAnswers(error)
    \/ \E outcome \in FallbackPruneOutcomes : StoreFallbackPruneAnswers(outcome)

PruneSpec == Init /\ [][PruneNext]_vars

----------------------------------------------------------------------------
(* One timeline of buildProviderTimelines, object by object                 *)

NotAttach == <<now, table, pingCache, calls, batches, probe, page, poller, ticker, summary, outbound, store, clients>>

\* the history of one config: n results of one type, in any order of
\* checkedAt
InputHeaps ==
    UNION {{[i \in 1..n |-> CheckResult(type, t[i])] : type \in ProviderTypes, t \in [1..n -> 1..2]} : n \in 1..MaxHeapItems}

OfficialCaches == [ProviderTypes -> OfficialStatuses]

\* dashboard-data.ts 385-399: the map callback for one non-empty entry
TimelineBuilt(heap, cache) ==
    /\ attach.pc = "idle"
    /\ LET items == [i \in DOMAIN heap |-> i]
           sorted == SortedRefs(heap, items)
           copy == CopyHead(heap, sorted[1])
           latest == attachOfficialStatus(copy.heap, copy.ref, cache)
       IN  attach' = [pc |-> "built", variant |-> "buildProviderTimelines",
                      before |-> heap, heap |-> latest.heap, input |-> items,
                      cache |-> cache, items |-> sorted, latest |-> latest.ref]
    /\ UNCHANGED NotAttach

\* types/dashboard.ts 299-320: the same callback written inline
TimelineBuiltInline(heap, cache) ==
    /\ attach.pc = "idle"
    /\ LET items == [i \in DOMAIN heap |-> i]
           sorted == SortedRefs(heap, items)
           copy == CopyHead(heap, sorted[1])
           latest == assignOfficialStatus(copy.heap, copy.ref, cache)
       IN  attach' = [pc |-> "built", variant |-> "inline",
                      before |-> heap, heap |-> latest.heap, input |-> items,
                      cache |-> cache, items |-> sorted, latest |-> latest.ref]
    /\ UNCHANGED NotAttach

AttachNext ==
    \/ \E heap \in InputHeaps, cache \in OfficialCaches : TimelineBuilt(heap, cache)
    \/ \E heap \in InputHeaps, cache \in OfficialCaches : TimelineBuiltInline(heap, cache)

AttachSpec == Init /\ [][AttachNext]_vars

----------------------------------------------------------------------------
(* Probes asking for their vendor client                                   *)

NotClients == <<now, table, pingCache, calls, batches, probe, page, poller, ticker, summary, outbound, store, attach>>

ClientEndpoints ==
    {<<"h">>, <<"h", "/v1", "/messages">>, <<"h", "/v1", "/chat/completions">>,
     <<"h2">>}

ApiKeys == {<<"k">>, <<"k2">>}

ClientConfigs ==
    [endpoint : ClientEndpoints, apiKey : ApiKeys, requestHeaders : HeaderObjects]

\* getAnthropicClient / getOpenAIClient called by a probe of config
GetClient(getter, config) ==
    /\ Len(clients.uses) < MaxClientCalls
    /\ LET cacheKey == cacheKeyOf(getter, config)
           cached == {e \in clients.cache[getter] : e.key = cacheKey}
       IN  IF cached # {}
           THEN LET client == (CHOOSE e \in cached : TRUE).client
                IN  clients' = [clients EXCEPT
                        !.uses = Append(@, [getter |-> getter, config |-> config,
                                            client |-> client])]
           ELSE LET client == newClient(getter, config, clients.created + 1)
                IN  clients' = [clients EXCEPT
                        !.created = @ + 1,
                        !.cache[getter] = @ \cup {[key |-> cacheKey, client |-> client]},
                        !.uses = Append(@, [getter |-> getter, config |-> config,
                                            client |-> client])]
    /\ UNCHANGED NotClients

ClientsNext ==
    \E getter \in ClientGetters, config \in ClientConfigs : GetClient(getter, config)

ClientsSpec == Init /\ [][ClientsNext]_vars

----------------------------------------------------------------------------
(* Properties                                                              *)

\* the step is taken by call c
StepOf(c) == calls'[c] # calls[c]

\* the step in which call c receives its first read and decides
Decides(c) == calls[c].pc = "reading" /\ calls'[c].pc # "reading"

EntryOf(c) == pingCache[calls[c].scope.cacheKey]

InProgress(b) == batches[b].stage \notin {"unused", "fulfilled", "rejected"}

\* the calls that reached the refresh path of a key while its entry was
\* empty or stale, in the refresh window that follows the w-th refresh
RefreshGroup(key, w) ==
    {c \in Callers :
        /\ calls[c].scope.cacheKey = key
        /\ calls[c].via \in {"started", "coalesced"}
        /\ calls[c].window = w}

C2_AtMostOneInflight ==
    \A key \in CacheKeys :
        LET running == {b \in Callers :
                           InProgress(b) /\ batches[b].scope.cacheKey = key}
        IN  /\ Cardinality(running) <= 1
            /\ \A b \in running : pingCache[key].inflight = b

\* a second refresh of a key runs after the first one has resolved
C2_Witness ==
    \E b1, b2 \in Callers :
        /\ b1 # b2
        /\ batches[b1].scope.cacheKey = batches[b2].scope.cacheKey
        /\ batches[b1].stage = "fulfilled"
        /\ InProgress(b2)

C4_BoundedStaleness ==
    [][\A c \in Callers :
          /\ ( /\ StepOf(c)
               /\ calls'[c].pc = "done"
               /\ calls'[c].refreshMode = "always"
               /\ calls'[c].scope.allowedIds # {} )
             => \/ /\ calls[c].pc = "reading"
                   /\ IsDefined(EntryOf(c).history)
                   /\ calls'[c].history = EntryOf(c).history
                   /\ now - EntryOf(c).lastPingAt < calls[c].scope.pollIntervalMs
                \/ /\ calls[c].pc = "awaiting"
                   /\ batches[calls[c].inflight].stage = "fulfilled"
                   /\ calls'[c].history = batches[calls[c].inflight].value
          /\ ( /\ Decides(c)
               /\ calls'[c].pc = "awaiting" )
             => batches'[calls'[c].inflight].stage
                    \notin {"unused", "fulfilled"}]_vars

\* an "always" call found a stale entry and returned the refresh it started
C4_Witness ==
    \E c \in Callers :
        /\ calls[c].pc = "done"
        /\ calls[c].refreshMode = "always"
        /\ calls[c].via = "started"
        /\ calls[c].window = 1
        /\ calls[c].history = EntryOf(c).history

EntryFields(entry) == <<entry.inflight, entry.history, entry.lastPingAt>>

\* C5: no step of a "never" call runs probes, writes the store or changes
\* inflight, history or lastPingAt of any cache entry.
C5_NeverIsReadOnly ==
    [][\A c \in Callers :
          ( StepOf(c) /\ calls'[c].refreshMode = "never" /\ calls'[c].pc # "idle" )
          => /\ table' = table
             /\ batches' = batches
             /\ \A key \in CacheKeys :
                   EntryFields(pingCache'[key]) = EntryFields(pingCache[key])]_vars

\* a "never" call returned the stored history of a scope whose entry is
\* empty although the store has rows for it
C5_Witness ==
    \E c \in Callers :
        /\ calls[c].pc = "done"
        /\ calls[c].refreshMode = "never"
        /\ calls[c].via = "read"
        /\ ObjectKeys(calls[c].history) # {}
        /\ ~IsDefined(EntryOf(c).history)
        /\ EntryOf(c).inflight = 0

EnteredRefresh(call) ==
    call.via \in {"noactive", "cached", "coalesced", "started"}

\* C6: a "missing" call enters the refresh path iff the scope has an active
\* config and the history it read is empty; otherwise it returns the history
\* it read and starts no probe.
C6_MissingRefreshesIffEmpty ==
    [][\A c \in Callers :
          ( Decides(c) /\ calls[c].refreshMode = "missing" )
          => /\ EnteredRefresh(calls'[c])
                   <=> ( calls[c].scope.activeConfigs # {}
                         /\ calls'[c].readEmpty )
             /\ ~EnteredRefresh(calls'[c])
                   => /\ calls'[c].pc = "done"
                      /\ calls'[c].history.ref = <<"fetch", c>>
                      /\ ObjectKeys(calls'[c].history) # {}
                      /\ \E outcome \in FetchOutcomes :
                            calls'[c].history =
                                readHistoryForScope(table, calls[c].scope,
                                                    outcome, <<"fetch", c>>)
                      /\ batches' = batches
                      /\ table' = table]_vars

\* one "missing" call started a refresh, another one returned stored rows
C6_Witness ==
    \E c1, c2 \in Callers :
        /\ calls[c1].refreshMode = "missing" /\ calls[c1].via = "started"
        /\ calls[c2].refreshMode = "missing" /\ calls[c2].via = "read"
        /\ calls[c2].pc = "done"
        /\ ObjectKeys(calls[c2].history) # {}

\* C7: a call on a scope without active ids returns {} in the step that
\* invokes it, in every refresh mode: it never waits for the store, starts
\* no probe and leaves the store and every cache entry as they are.
C7_EmptyScope ==
    [][\A c \in Callers :
          ( StepOf(c) /\ calls[c].pc = "idle" /\ calls'[c].scope.allowedIds = {} )
          => /\ calls'[c].pc = "done"
             /\ ObjectKeys(calls'[c].history) = {}
             /\ IsDefined(calls'[c].history)
             /\ table' = table
             /\ batches' = batches
             /\ pingCache' = pingCache]_vars

\* an "always" call on the scope of group h, which has no active config,
\* is done and its cache key has no entry
C7_Witness ==
    \E c \in Callers :
        /\ calls[c].pc = "done"
        /\ calls[c].refreshMode = "always"
        /\ calls[c].scope = GroupScope("h")
        /\ calls[c].scope.allowedIds = {}
        /\ ~pingCache[calls[c].scope.cacheKey].present

\* C8: lastPingAt of every cache entry never decreases.
C8_LastPingAtMonotone ==
    [][\A key \in CacheKeys :
          pingCache'[key].lastPingAt >= pingCache[key].lastPingAt]_vars

\* an entry has been refreshed twice, the second time at a later clock
C8_Witness ==
    \E key \in CacheKeys, b1, b2 \in Callers :
        /\ b1 # b2
        /\ batches[b1].stage = "fulfilled" /\ batches[b2].stage = "fulfilled"
        /\ batches[b1].scope.cacheKey = key /\ batches[b2].scope.cacheKey = key
        /\ pingCache[key].lastPingAt = MaxClock

\* the rings a fetch of the current store returns, by either path
VisibleRings ==
    {fetch(table, scope.allowedIds, outcome, <<"fetch", 0>>).rings :
        scope \in Scopes, outcome \in {"rpc", "fallback"}}

Descending(ring) ==
    \A i \in 1..(Len(ring) - 1) : ring[i].checked_at >= ring[i + 1].checked_at

StrictlyDescending(ring) ==
    \A i \in 1..(Len(ring) - 1) : ring[i].checked_at > ring[i + 1].checked_at

\* C9 as stated: the history visible through fetch has, for every config id,
\* at most 60 entries, strictly descending by checkedAt.
C9_StrictlyDescendingRings ==
    \A rings \in VisibleRings, id \in ConfigIds :
        /\ Len(rings[id]) <= MAX_POINTS_PER_PROVIDER
        /\ StrictlyDescending(rings[id])

\* C9 as amended: the history visible through fetch has, for every config
\* id, at most 60 entries, descending by checkedAt; two entries of one id may
\* share a checkedAt.
C9_DescendingRings ==
    \A rings \in VisibleRings, id \in ConfigIds :
        /\ Len(rings[id]) <= MAX_POINTS_PER_PROVIDER
        /\ Descending(rings[id])

\* the store holds more than 60 rows of a config, two of them appended by
\* the refreshes of two scopes with the same checked_at, and the visible
\* ring is cut to 60 entries of which the first two are equal in checkedAt
C9_Witness ==
    \E rings \in VisibleRings, id \in ConfigIds :
        /\ Len(RowsOfConfig(table, id)) > MAX_POINTS_PER_PROVIDER
        /\ Len(rings[id]) = MAX_POINTS_PER_PROVIDER
        /\ rings[id][1].checked_at = rings[id][2].checked_at
        /\ rings[id][1].id # rings[id][2].id

\* C10: in the step that completes an append whose insert and prune both
\* succeeded, the store is left with at most 60 rows for every config id,
\* and every row the append removed is no newer than any row it kept.
C10_AppendLeavesNewest60 ==
    [][\A b \in Callers :
          ( batches[b].appended # "ok" /\ batches'[b].appended = "ok" )
          => \A id \in ConfigIds :
                LET before == RowsOfConfig(table, id)
                    after == RowsOfConfig(table', id)
                IN  /\ Len(after) <= MAX_POINTS_PER_PROVIDER
                    /\ RowIds(after) \subseteq RowIds(before)
                    /\ \A i \in DOMAIN before :
                          before[i].id \notin RowIds(after)
                          => \A j \in DOMAIN after :
                                after[j].checked_at >= before[i].checked_at]_vars

\* C11 as stated: every result with status failed has latencyMs null, and
\* latencyMs is null only for status failed or maintenance.
C11_FailedIffNoLatency ==
    ( probe.pc = "done" /\ ~probe.rejected )
    => /\ probe.result.status = "failed" => probe.result.latencyMs = Null
       /\ probe.result.latencyMs = Null
             => probe.result.status \in {"failed", "maintenance"}

\* C12: a probe whose stream succeeded after L ms reports latencyMs = L and
\* status operational when L <= 6000, degraded when L > 6000, and the
\* result it returns carries both.
C12_LatencyClassification ==
    [][/\ ( probe.pc = "stream" /\ probe'.pc = "ping" /\ probe'.path = "success" )
          => /\ probe'.result.latencyMs = <<probe.elapsed>>
             /\ probe.elapsed <= 6000 => probe'.result.status = "operational"
             /\ probe.elapsed > 6000 => probe'.result.status = "degraded"
       /\ ( probe.pc = "ping" /\ probe'.pc = "done" /\ probe.path = "success" )
          => /\ ~probe'.rejected
             /\ probe'.result.status = probe.result.status
             /\ probe'.result.latencyMs = probe.result.latencyMs]_vars

\* a probe that succeeded after exactly 6000 ms returned operational
C12_Witness ==
    /\ probe.pc = "done"
    /\ probe.path = "success"
    /\ probe.result.latencyMs = <<6000>>
    /\ probe.result.status = "operational"

\* C13 as stated: a finished probe has resolved with one CheckResult and has
\* not rejected; any error inside it gives status failed; when the deadline
\* timer aborted the request before a stream event arrived the result is
\* failed, latencyMs null, message "请求超时".
C13_ProbeNeverRejects ==
    probe.pc = "done"
    => /\ ~probe.rejected
       /\ probe.result.status \in {"operational", "degraded", "failed"}
       /\ probe.path \in {"catch", "aborted"} => probe.result.status = "failed"
       /\ ( probe.path = "aborted" /\ ~probe.sawEvent )
             => /\ probe.result.status = "failed"
                /\ probe.result.latencyMs = Null
                /\ probe.result.message = MSG_TIMEOUT

\* C14: no config with is_maintenance = true is passed to runProviderChecks
\* and no result passed to the store's append has status maintenance or
\* belongs to a maintenance config.
C14_MaintenanceNeverProbedNorStored ==
    \A b \in Callers :
        /\ batches[b].stage = "probing"
              => \A cfg \in batches[b].scope.activeConfigs : ~cfg.is_maintenance
        /\ \A i \in DOMAIN batches[b].results :
              /\ batches[b].results[i].status # "maintenance"
              /\ \A cfg \in AllConfigs :
                    cfg.id = batches[b].results[i].id => ~cfg.is_maintenance

\* the dashboard, whose configs include one in maintenance, has probed its
\* two active configs and is about to append their results
C14_Witness ==
    \E b \in Callers :
        /\ batches[b].stage = "inserting"
        /\ batches[b].scope = DashboardScope
        /\ \E cfg \in AllConfigs : cfg.is_maintenance
        /\ Len(batches[b].results) = 2

\* the cache entries of the scopes built by another loader than owner
ForeignKeys(owner) == {s.cacheKey : s \in {x \in Scopes : x.owner # owner}}

\* C20: a step of a call or of a refresh of one scope (dashboard or group)
\* leaves the cache entry of every other scope unchanged; a call coalesces
\* only with a refresh of its own scope, is answered from the cache only
\* with a history its own scope's refresh produced, and starts a refresh
\* when its own scope has none, whatever the state of the other entries.
C20_ScopesIsolated ==
    [][/\ \A c \in Callers :
             StepOf(c)
             => \A key \in ForeignKeys(calls'[c].scope.owner) :
                   pingCache'[key] = pingCache[key]
       /\ \A b \in Callers :
             batches'[b] # batches[b]
             => \A key \in ForeignKeys(batches'[b].scope.owner) :
                   pingCache'[key] = pingCache[key]
       /\ \A c \in Callers :
             Decides(c)
             => /\ calls'[c].via = "coalesced"
                      => batches[calls'[c].inflight].scope.owner
                             = calls[c].scope.owner
                /\ calls'[c].via = "cached"
                      => \E b \in Callers :
                            /\ calls'[c].history.ref = <<"refresh", b>>
                            /\ batches[b].scope.owner = calls[c].scope.owner
                /\ ( /\ calls'[c].via \in {"cached", "coalesced", "started"}
                     /\ \A b \in Callers :
                           batches[b].scope.owner # calls[c].scope.owner )
                      => calls'[c].via = "started"]_vars

\* the dashboard and group g hold the same active ids; each entry caches the
\* history of its own refresh, the group's taken inside the dashboard
\* entry's freshness window
C20_Witness ==
    LET d == pingCache[DashboardScope.cacheKey]
        g == pingCache[GroupScope("g").cacheKey]
    IN  /\ DashboardScope.allowedIds = GroupScope("g").allowedIds
        /\ IsDefined(d.history) /\ IsDefined(g.history)
        /\ d.history.ref # g.history.ref
        /\ g.lastPingAt > d.lastPingAt
        /\ g.lastPingAt - d.lastPingAt < pollIntervalMs

DashboardDone == page.pc = "done" /\ page.endpoint = "dashboard"

GroupDone == page.pc = "done" /\ page.endpoint = "group"

IsPlaceholder(timeline) ==
    timeline.items = <<>> /\ timeline.latest.status = "maintenance"

TimelineIds(timelines) == {timelines[i].id : i \in DOMAIN timelines}

\* C16 as stated: with no active config id, loadDashboardData returns
\* total = 0 and performs no probe and no access to the history store.
C16_EmptyActiveSetTotalZero ==
    (DashboardDone /\ page.scope.allowedIds = {}) =>
        /\ page.data.total = 0
        /\ ~page.probed
        /\ ~page.storeAccess

\* C16: with no active config id, loadDashboardData performs no probe and no
\* access to the history store, and returns exactly one placeholder timeline
\* per maintenance config: total is the number of maintenance configs, 0
\* only when there is none.
C16_EmptyActiveSetOnlyPlaceholders ==
    (DashboardDone /\ page.scope.allowedIds = {}) =>
        /\ ~page.probed
        /\ ~page.storeAccess
        /\ page.data.total = Len(page.maintenanceConfigs)
        /\ page.data.total = Cardinality({cfg \in Range(page.allConfigs) :
                                             cfg.is_maintenance})
        /\ \A i \in DOMAIN page.data.providerTimelines :
              IsPlaceholder(page.data.providerTimelines[i])

C16_Witness ==
    /\ DashboardDone
    /\ ~page.loadFailed
    /\ page.scope.allowedIds = {}
    /\ page.data.total = 2
    /\ ~page.storeAccess

\* C17: when loadProviderConfigsFromDB returns empty after a backend error,
\* every read endpoint answers HTTP 200 with an empty result of total = 0.
C17_ConfigLoadFailureDegrades ==
    (page.pc = "done" /\ page.loadFailed) =>
        /\ page.response.status = 200
        /\ ~page.data.isNull
        /\ page.data.total = 0

InGroup(cfg, targetGroupName) ==
    IF targetGroupName = UNGROUPED_KEY THEN cfg.groupName = ""
    ELSE cfg.groupName = targetGroupName

AscendingByName(timelines) ==
    \A i, j \in DOMAIN timelines :
        i < j => LocaleRank(timelines[i].latest.name)
                    <= LocaleRank(timelines[j].latest.name)

\* C19: groupTimelines emits the named groups in ascending order of
\* groupName (the order of localeCompare), then at most one ungrouped bucket
\* (groupName "__ungrouped__", displayName "未分组") in last position; the
\* timelines of every group are in ascending order of latest.name, and so
\* are all timelines buildProviderTimelines emits.
C19_GroupsAndTimelinesOrdered ==
    page.pc = "done" =>
        LET groups == page.data.groupedTimelines
        IN  /\ AscendingByName(page.data.providerTimelines)
            /\ \A i \in DOMAIN groups :
                  /\ AscendingByName(groups[i].timelines)
                  /\ groups[i].timelines # <<>>
                  /\ groups[i].groupName = UNGROUPED_KEY =>
                        /\ i = Len(groups)
                        /\ groups[i].displayName = UNGROUPED_DISPLAY_NAME
                  /\ groups[i].groupName # UNGROUPED_KEY =>
                        groups[i].displayName = groups[i].groupName
            /\ \A i, j \in DOMAIN groups :
                  (i < j /\ groups[j].groupName # UNGROUPED_KEY) =>
                      LocaleRank(groups[i].groupName)
                          < LocaleRank(groups[j].groupName)
            /\ page.endpoint = "dashboard" =>
                  \A k \in DOMAIN page.data.providerTimelines :
                      \E i \in DOMAIN groups :
                          /\ groups[i].groupName =
                                GroupKeyOf(page.data.providerTimelines[k])
                          /\ page.data.providerTimelines[k]
                                \in Range(groups[i].timelines)

C19_Witness ==
    /\ DashboardDone
    /\ Len(page.data.providerTimelines) = 4
    /\ Len(page.data.groupedTimelines) = 3
    /\ page.data.groupedTimelines[1].groupName = "g"
    /\ page.data.groupedTimelines[2].groupName = "H"
    /\ page.data.groupedTimelines[3].groupName = UNGROUPED_KEY
    /\ Len(page.data.groupedTimelines[3].timelines) = 2

\* C21: at most one official-status check run executes at any time, over
\* every interleaving of timer ticks, the immediate first run, ensure, start
\* and stop.
C21_AtMostOneRun == poller.executing <= 1

\* C22: ensureOfficialStatusPoller is idempotent: after one or more calls of
\* ensure or start with no stop in between exactly one interval timer exists
\* and exactly one immediate first run was triggered, and a call made while a
\* timer exists changes nothing.
C22_EnsureIdempotent ==
    [][/\ poller'.liveTimers = (IF poller'.timer THEN 1 ELSE 0)
       /\ poller'.calls >= 1 =>
             /\ poller'.timer
             /\ poller'.liveTimers = 1
             /\ poller'.immediates = 1
       /\ (poller' # poller /\ poller'.last \in {"ensure_noop", "start_noop"}) =>
             /\ poller.timer
             /\ poller' = [poller EXCEPT !.calls = poller'.calls,
                                         !.ops = poller'.ops,
                                         !.last = poller'.last]
       /\ (poller' # poller /\ poller'.last \in {"ensure", "start"}) =>
             /\ ~poller.timer
             /\ poller'.immediates = poller.immediates + 1
             /\ poller'.liveTimers = poller.liveTimers + 1]_vars

C22_Witness ==
    /\ poller.calls = 3
    /\ poller.last = "ensure_noop"
    /\ poller.liveTimers = 1
    /\ poller.immediates = 1

\* C23: every tick of the background poller starts a new probe
\* batch unless a refresh of the default scope is inflight, and consecutive
\* batches start no more than one interval plus one refresh duration apart.
C23_EveryTickProbes ==
    /\ ticker.decision = "cached" => ticker.sawInflight
    /\ ticker.gap <= pollIntervalMs + ticker.duration

Severity(status) ==
    CASE status = "operational" -> 0
      [] status = "degraded" -> 1
      [] status = "down" -> 2
      [] OTHER -> -1

IndicatorStatus(indicator) ==
    CASE indicator = <<"none">> -> "operational"
      [] indicator = <<"minor">> -> "degraded"
      [] indicator \in {<<"major">>, <<"critical">>} -> "down"
      [] OTHER -> "unknown"

\* C24: parseAnthropicSummary maps the indicator none to operational, minor
\* to degraded, major and critical to down; component statuses only raise
\* that severity: a component whose status contains "outage" forces down,
\* one whose status contains "degraded" forces at least degraded; for an
\* indicator in {none, minor, major, critical} the result is never unknown.
C24_IndicatorMapping ==
    LET indicator == toLowerCase(summary.indicator)
        statuses == {toLowerCase(summary.components[i]) :
                        i \in DOMAIN summary.components}
    IN  (summary.pc = "parsed" /\ IndicatorStatus(indicator) # "unknown") =>
            /\ summary.status # "unknown"
            /\ Severity(summary.status) >= Severity(IndicatorStatus(indicator))
            /\ (\E st \in statuses : includes(st, "outage")) =>
                  summary.status = "down"
            /\ (\E st \in statuses : includes(st, "degraded")) =>
                  Severity(summary.status) >= Severity("degraded")
            /\ statuses \subseteq {<<"operational">>} =>
                  summary.status = IndicatorStatus(indicator)

HasDirective(model) ==
    /\ Len(model) >= 2
    /\ model[Len(model) - 1] \in {"@", "#"}
    /\ LowerWord(model[Len(model)]) \in {"mini", "minimal", "low", "medium", "high"}

NormalizedEffort(word) ==
    IF LowerWord(word) = "mini" THEN "minimal" ELSE LowerWord(word)

WithoutDirective(model) == SubSeq(model, 1, Len(model) - 2)

\* C25 as stated, white space around the model and around its base aside:
\* a model ending in "@" or "#" and one of mini|minimal|low|medium|high, in
\* any case, is sent with that suffix stripped and reasoning_effort set to
\* the normalized effort (mini becomes minimal); without a directive a model
\* matching a reasoning-model hint is sent unchanged with reasoning_effort
\* "medium"; otherwise reasoning_effort is omitted.
C25_DirectiveStripped ==
    outbound.pc = "built" =>
        LET model == trim(outbound.configModel)
            payload == outbound.payload
        IN  IF HasDirective(model)
            THEN /\ payload.model = trim(WithoutDirective(model))
                 /\ payload.has_reasoning_effort
                 /\ payload.reasoning_effort =
                       <<NormalizedEffort(model[Len(model)])>>
            ELSE IF matchesReasoningHint(model)
            THEN /\ payload.model = model
                 /\ payload.has_reasoning_effort
                 /\ payload.reasoning_effort = <<"medium">>
            ELSE ~payload.has_reasoning_effort

\* C25: a model that, trimmed, ends in "@" or "#" and one of
\* mini|minimal|low|medium|high, in any case, is sent with reasoning_effort
\* set to the normalized effort (mini becomes minimal) and with the suffix
\* stripped and the rest trimmed, unless nothing but white space precedes
\* the suffix: then the whole trimmed model, suffix included, is sent.
\* Without a directive a model matching a reasoning-model hint is sent
\* trimmed with reasoning_effort "medium"; otherwise the trimmed model is
\* sent (a model of white space only: as it is) without reasoning_effort.
C25_DirectiveStrippedUnlessBare ==
    outbound.pc = "built" =>
        LET model == trim(outbound.configModel)
            payload == outbound.payload
        IN  IF HasDirective(model)
            THEN /\ payload.model =
                       IF trim(WithoutDirective(model)) = <<>> THEN model
                       ELSE trim(WithoutDirective(model))
                 /\ payload.has_reasoning_effort
                 /\ payload.reasoning_effort =
                       <<NormalizedEffort(model[Len(model)])>>
            ELSE IF matchesReasoningHint(model)
            THEN /\ payload.model = model
                 /\ payload.has_reasoning_effort
                 /\ payload.reasoning_effort = <<"medium">>
            ELSE /\ ~payload.has_reasoning_effort
                 /\ payload.reasoning_effort = <<>>
                 /\ payload.model =
                       IF model = <<>> THEN outbound.configModel ELSE model

C25_Witness ==
    /\ outbound.pc = "built"
    /\ outbound.configModel = <<"gpt-5.1-codex", "@", "mini">>
    /\ outbound.payload.model = <<"gpt-5.1-codex">>
    /\ outbound.payload.reasoning_effort = <<"minimal">>

\* C26: a scope's inflight is cleared when its refresh settles, whether the
\* refresh promise fulfils or rejects, and only by the call that installed
\* it; when the refresh rejects, history and lastPingAt keep their values,
\* and every call that awaited the promise rejects with it.
C26_InflightClearedOnSettle ==
    [][/\ \A key \in CacheKeys :
             (pingCache[key].inflight # 0 /\ pingCache'[key].inflight = 0) =>
                 LET b == pingCache[key].inflight
                 IN  /\ Settled(b)
                     /\ calls[b].pc = "awaiting" /\ calls[b].installed
                     /\ calls'[b].pc \in {"done", "rejected"}
                     /\ \A c \in Callers \ {b} : calls'[c] = calls[c]
       /\ \A c \in Callers :
             (calls'[c].installed /\ calls'[c].pc \in {"done", "rejected"}) =>
                 pingCache'[calls'[c].scope.cacheKey].inflight # c
       /\ \A key \in CacheKeys :
             ( \/ pingCache'[key].history # pingCache[key].history
               \/ pingCache'[key].lastPingAt # pingCache[key].lastPingAt ) =>
                 \E b \in Callers : /\ batches[b].scope.cacheKey = key
                                    /\ batches[b].stage = "rereading"
                                    /\ batches'[b].stage = "fulfilled"
       /\ \A b \in Callers :
             (batches[b].stage # "rejected" /\ batches'[b].stage = "rejected")
                 => pingCache' = pingCache
       /\ \A c \in Callers :
             (calls[c].pc = "awaiting" /\ calls'[c].pc # "awaiting") =>
                 /\ calls'[c].pc = "rejected" <=>
                       batches[calls[c].inflight].stage = "rejected"
                 /\ calls'[c].pc = "done" <=>
                       batches[calls[c].inflight].stage = "fulfilled"]_vars

C26_Witness ==
    \E b, c \in Callers :
        /\ b # c
        /\ batches[b].stage = "rejected"
        /\ calls[b].installed /\ calls[b].pc = "rejected"
        /\ calls[c].via = "coalesced" /\ calls[c].inflight = b
        /\ calls[c].pc = "rejected"
        /\ pingCache[batches[b].scope.cacheKey].inflight = 0
        /\ ~IsDefined(pingCache[batches[b].scope.cacheKey].history)
        /\ pingCache[batches[b].scope.cacheKey].lastPingAt = 0

\* the order of the awaits of one inflightPromise
RefreshOrder ==
    {<<"unused", "probing">>, <<"probing", "inserting">>,
     <<"inserting", "pruning">>, <<"inserting", "rereading">>,
     <<"pruning", "rereading">>, <<"pruning", "fb_select">>,
     <<"fb_select", "rereading">>, <<"fb_select", "fb_delete">>,
     <<"fb_delete", "rereading">>, <<"rereading", "fulfilled">>,
     <<"inserting", "rejected">>, <<"pruning", "rejected">>,
     <<"rereading", "rejected">>}

\* C27: within one refresh every probe of the batch resolves, then all
\* results are appended as one batch, then the scoped history is re-read,
\* then history and lastPingAt are updated; the refresh promise resolves,
\* and the cache entry changes, only after all of these steps.
C27_RefreshStepsOrdered ==
    [][/\ \A b \in Callers :
             batches'[b].stage # batches[b].stage =>
                 /\ <<batches[b].stage, batches'[b].stage>> \in RefreshOrder
                 /\ batches[b].stage = "probing" =>
                       /\ {batches'[b].results[i].id :
                              i \in DOMAIN batches'[b].results}
                             = batches[b].scope.allowedIds
                       /\ Len(batches'[b].results)
                             = Cardinality(batches[b].scope.allowedIds)
                       /\ table' = table
                 /\ batches'[b].stage = "fulfilled" =>
                       LET key == batches[b].scope.cacheKey
                       IN  /\ pingCache'[key].history = batches'[b].value
                           /\ pingCache'[key].history.ref = <<"refresh", b>>
                           /\ pingCache'[key].lastPingAt = now
       /\ RowIds(table') \ RowIds(table) # {} =>
             \E b \in Callers :
                 /\ batches[b].stage = "inserting"
                 /\ batches'[b].stage = "pruning"
                 /\ RowIds(table') \ RowIds(table)
                       = {100 * b + i : i \in DOMAIN batches[b].results}
       /\ \A key \in CacheKeys :
             ( \/ pingCache'[key].history # pingCache[key].history
               \/ pingCache'[key].lastPingAt # pingCache[key].lastPingAt ) =>
                 \E b \in Callers : /\ batches[b].scope.cacheKey = key
                                    /\ batches'[b].stage = "fulfilled"
                                    /\ batches[b].stage = "rereading"
       /\ \A c \in Callers :
             (calls[c].pc = "awaiting" /\ calls'[c].pc = "done") =>
                 /\ batches[calls[c].inflight].stage = "fulfilled"
                 /\ calls'[c].history = batches[calls[c].inflight].value]_vars

C27_Witness ==
    \E b \in Callers :
        /\ batches[b].stage = "fulfilled"
        /\ Cardinality(batches[b].scope.allowedIds) = 2
        /\ {100 * b + 1, 100 * b + 2} \subseteq RowIds(table)
        /\ pingCache[batches[b].scope.cacheKey].history.ref = <<"refresh", b>>
        /\ ObjectKeys(batches[b].value) = {"a", "b"}
        /\ calls[b].pc = "done"
        /\ calls[b].history = batches[b].value

\* the state of a scope's cache entry at time clock
EntryState(entry, clock) ==
    IF entry.inflight # 0 THEN "warming"
    ELSE IF ~IsDefined(entry.history) THEN "empty"
    ELSE IF clock - entry.lastPingAt < pollIntervalMs THEN "fresh"
    ELSE "stale"

EntryMoves(allowed) ==
    \A key \in CacheKeys :
        LET from == EntryState(pingCache[key], now)
            to == EntryState(pingCache'[key], now')
        IN  /\ from # to => <<from, to>> \in allowed
            /\ (from = "fresh" /\ to = "stale") =>
                  (now' > now /\ pingCache'[key] = pingCache[key])
            /\ IsDefined(pingCache[key].history) =>
                  IsDefined(pingCache'[key].history)

\* C28 as stated: each scope cache entry only moves along empty -> warming
\* -> fresh -> stale -> warming -> fresh: warming (inflight set) is entered
\* only from empty or stale, never from fresh; fresh becomes stale only by
\* passage of time; once history is set it is never unset.
C28_EntryStateMachine ==
    [][EntryMoves({<<"empty", "warming">>, <<"warming", "fresh">>,
                   <<"fresh", "stale">>, <<"stale", "warming">>})]_vars

\* C28: each scope cache entry only moves along empty -> warming -> fresh ->
\* stale -> warming -> fresh, or from warming back to the state it came from
\* (empty or stale) when the refresh rejects: warming is entered only from
\* empty or stale, never from fresh; fresh becomes stale only by passage of
\* time; once history is set it is never unset.
C28_EntryStateMachineWithRejection ==
    [][EntryMoves({<<"empty", "warming">>, <<"warming", "fresh">>,
                   <<"fresh", "stale">>, <<"stale", "warming">>,
                   <<"warming", "empty">>, <<"warming", "stale">>})]_vars

C28_Witness ==
    \E b \in Callers :
        LET entry == pingCache[batches[b].scope.cacheKey]
        IN  /\ batches[b].stage = "rejected"
            /\ calls[b].pc = "rejected"
            /\ EntryState(entry, now) = "stale"
            /\ \E a \in Callers : /\ a # b
                                  /\ batches[a].stage = "fulfilled"
                                  /\ entry.history.ref = <<"refresh", a>>

BatchRowIds(b) == {100 * b + i : i \in 1..Cardinality(batches[b].scope.allowedIds)}

\* C29: when the insert of an append fails, append returns without invoking
\* prune, the rows of the store are unchanged and no exception reaches the
\* refresh, which goes on to its re-read; the batch of results is dropped.
C29_InsertFailureDropsBatch ==
    [][\A b \in Callers :
          (batches[b].stage = "inserting" /\ batches'[b].stage # "inserting") =>
              /\ batches'[b].stage \in {"pruning", "rereading"}
              /\ batches'[b].stage = "pruning" <=>
                    BatchRowIds(b) \subseteq RowIds(table')
              /\ batches'[b].stage = "rereading" =>
                    /\ table' = table
                    /\ BatchRowIds(b) \cap RowIds(table') = {}
                    /\ batches'[b].results = <<>>
                    /\ batches'[b].appended = "failed"
                    /\ pingCache' = pingCache
                    /\ calls' = calls]_vars

C29_Witness ==
    \E b \in Callers :
        /\ batches[b].stage = "rereading"
        /\ batches[b].appended = "failed"
        /\ batches[b].results = <<>>
        /\ BatchRowIds(b) \cap RowIds(table) = {}
        /\ calls[b].pc = "awaiting"
        /\ pingCache[batches[b].scope.cacheKey].inflight = b

\* the stored procedure a store call invokes
CalledProcedure(op) ==
    IF op = "fetch" THEN RPC_RECENT_HISTORY ELSE RPC_PRUNE_HISTORY

TookFallback == store.path = "fallback"

\* a store call that ended on an error other than a missing procedure: fetch
\* returns {} and prune leaves every row in place
OtherErrorIsInert ==
    (store.pc = "done" /\ store.error.present
        /\ ~isMissingFunctionError(store.error)) =>
        /\ store.path = "error"
        /\ store.op = "fetch" => ObjectKeys(store.result) = {}
        /\ store.op = "prune" => store.after = store.rows

\* fetch with allowedIds provided but empty returns {} and never calls the
\* backend
EmptyAllowedIdsSkipBackend ==
    (store.op = "fetch" /\ store.provided /\ store.allowedIds = {}) =>
        /\ store.pc = "done"
        /\ ~store.contacted
        /\ IsDefined(store.result)
        /\ ObjectKeys(store.result) = {}

\* C30 as stated: fetch and prune take the fallback path only when the call of
\* the stored procedure failed with a message that contains the name of that
\* procedure; any other error makes fetch return {} and prune delete nothing;
\* fetch with an empty allowedIds returns {} without contacting the backend
C30_FallbackOnlyOnProcedureName ==
    /\ TookFallback =>
           /\ store.error.present
           /\ includes(store.error.message, CalledProcedure(store.op))
    /\ OtherErrorIsInert
    /\ EmptyAllowedIdsSkipBackend

\* C30 amended: the fallback path is taken exactly when the call failed with
\* a message that contains the name of either stored procedure,
\* get_recent_check_history or prune_check_history; the rest as stated
C30_FallbackOnEitherProcedureName ==
    /\ (store.pc # "idle" /\ store.pc # "rpc" /\ store.path # "short") =>
           (TookFallback <=>
               /\ store.error.present
               /\ store.error.hasMessage
               /\ \/ includes(store.error.message, RPC_RECENT_HISTORY)
                  \/ includes(store.error.message, RPC_PRUNE_HISTORY))
    /\ OtherErrorIsInert
    /\ EmptyAllowedIdsSkipBackend

\* a fetch whose stored procedure failed with a message naming the other
\* procedure has read the rows through the fallback query
C30_Witness ==
    /\ store.pc = "done"
    /\ store.op = "fetch"
    /\ TookFallback
    /\ includes(store.error.message, RPC_PRUNE_HISTORY)
    /\ ~includes(store.error.message, RPC_RECENT_HISTORY)
    /\ ObjectKeys(store.result) = {"a"}

\* a store call whose fallback prune ran to its end
FallbackPruned ==
    /\ store.pc = "done"
    /\ store.op = "prune"
    /\ store.fallback = "ok"

\* C31: for every store content and limit, fallbackPruneHistory keeps, of
\* every config id, exactly min(limit, count) rows, none of them older than a
\* row of that config it deletes, and leaves the kept rows as they were
C31_FallbackPruneKeepsNewest ==
    FallbackPruned =>
        LET kept == RowIds(store.after)
        IN  /\ store.after = SelectSeq(store.rows, LAMBDA r : r.id \in kept)
            /\ \A id \in ConfigIds :
                   LET before == RowsOfConfig(store.rows, id)
                   IN  /\ Len(RowsOfConfig(store.after, id))
                              = Min(store.limit, Len(before))
                       /\ \A i \in DOMAIN before, j \in DOMAIN before :
                              (before[i].id \in kept /\ before[j].id \notin kept)
                                  => before[i].checked_at >= before[j].checked_at

\* the fallback prune has deleted rows of both configs and kept others
C31_Witness ==
    /\ FallbackPruned
    /\ store.limit = 1
    /\ Len(store.rows) = MaxPruneRows
    /\ Len(store.after) = 2
    /\ {store.after[i].config_id : i \in DOMAIN store.after} = PruneConfigIds

\* C32: after a timeline is built, every element of its items and of the input
\* history is the object it was, without officialStatus; latest is an object of
\* its own that carries the cached official status of its type when there is
\* one; items holds the input's objects
C32_OfficialStatusOnlyOnLatest ==
    attach.pc = "built" =>
        LET refs == Range(attach.input) \cup Range(attach.items)
        IN  /\ \A a \in refs :
                   /\ attach.heap[a] = attach.before[a]
                   /\ attach.heap[a].officialStatus = "absent"
            /\ Range(attach.items) = Range(attach.input)
            /\ attach.latest \notin refs
            /\ attach.heap[attach.latest].officialStatus
                   = getOfficialStatus(attach.cache,
                                       attach.heap[attach.items[1]].type)

\* a timeline of several items whose latest carries an official status
C32_Witness ==
    /\ attach.pc = "built"
    /\ Len(attach.items) = MaxHeapItems
    /\ attach.heap[attach.latest].officialStatus = "degraded"
    /\ attach.heap[attach.latest].checkedAt = attach.heap[attach.items[1]].checkedAt

\* the tuple (baseURL, apiKey, requestHeaders) of a use; two requestHeaders
\* are equal when they are both null or hold the same properties
ClientTuple(use) ==
    <<baseURLOf(use.getter, use.config), use.config.apiKey,
      use.config.requestHeaders.isNull, HeaderPairs(use.config.requestHeaders)>>

\* C33: the client a probe of config c was given was created with c's own
\* baseURL, apiKey and requestHeaders, and two probes through the same getter
\* were given the same client exactly when their configs agree on that tuple
C33_ClientPerTuple ==
    \A i \in DOMAIN clients.uses :
        LET use == clients.uses[i]
        IN  /\ use.client.baseURL = baseURLOf(use.getter, use.config)
            /\ use.client.apiKey = use.config.apiKey
            /\ use.client.headers = HeaderPairs(use.config.requestHeaders)
            /\ \A j \in DOMAIN clients.uses :
                   LET other == clients.uses[j]
                   IN  other.getter = use.getter =>
                           (other.client.serial = use.client.serial
                               <=> ClientTuple(other) = ClientTuple(use))

\* the entry of key would pass the freshness test of lines 336-339 now
FreshNow(key) == IsFresh(pingCache[key], now, pollIntervalMs)

\* C34 as stated: whenever a scope's inflight is set, its entry is not fresh
C34_InflightNeverFresh ==
    \A key \in CacheKeys : pingCache[key].inflight # 0 => ~FreshNow(key)

\* C34 amended: an entry is fresh with its inflight set only between the
\* fulfilment of that refresh and the finally of the call that installed it,
\* and then the cached history is the object the refresh resolved with, so
\* the freshness test returns what awaiting the inflight would return; while
\* the refresh is running the entry is not fresh
C34_FreshInflightIsSettledRefresh ==
    \A key \in CacheKeys :
        (pingCache[key].inflight # 0 /\ FreshNow(key)) =>
            LET b == pingCache[key].inflight
            IN  /\ batches[b].stage = "fulfilled"
                /\ batches[b].scope.cacheKey = key
                /\ pingCache[key].history = batches[b].value
                /\ calls[b].pc = "awaiting" /\ calls[b].installed

\* a call was answered from the cache while the inflight of its key was still
\* set, with the object the refresh resolved with
C34_Witness ==
    \E b, c \in Callers :
        /\ b # c
        /\ batches[b].stage = "fulfilled"
        /\ calls[c].pc = "done"
        /\ calls[c].via = "cached"
        /\ pingCache[calls[c].scope.cacheKey].inflight = b
        /\ calls[c].history = batches[b].value
        /\ ObjectKeys(calls[c].history) # {}

MaintenanceIds == {cfg.id : cfg \in {x \in AllConfigs : x.is_maintenance}}

\* C36: every history a call of loadSnapshotForScope returns, and every
\* history cached under a scope's key, holds only ids of that scope's
\* allowedIds; none of them is the id of a maintenance config, so the
\* timelines built from the history and the placeholders built from the
\* maintenance configs have different ids
C36_HistoryWithinAllowedIds ==
    /\ \A c \in Callers :
          calls[c].pc = "done" =>
              /\ ObjectKeys(calls[c].history) \subseteq calls[c].scope.allowedIds
              /\ ObjectKeys(calls[c].history) \cap MaintenanceIds = {}
    /\ \A s \in Scopes :
          /\ ObjectKeys(pingCache[s.cacheKey].history) \subseteq s.allowedIds
          /\ ObjectKeys(pingCache[s.cacheKey].history) \cap MaintenanceIds = {}

\* a call returned a history of its scope's ids, read through the fallback
\* query or the stored procedure, while the store holds a row of another id
C36_Witness ==
    \E c \in Callers :
        /\ calls[c].pc = "done"
        /\ ObjectKeys(calls[c].history) # {}
        /\ IsDefined(pingCache[calls[c].scope.cacheKey].history)
        /\ \E i \in DOMAIN table :
               table[i].config_id \notin calls[c].scope.allowedIds

\* the number of timelines in groups[1..n]
RECURSIVE SumOfGroupSizes(_, _)
SumOfGroupSizes(groups, n) ==
    IF n = 0 THEN 0
    ELSE Len(groups[n].timelines) + SumOfGroupSizes(groups, n - 1)

\* the groups that hold a timeline of this id
GroupsHolding(groups, id) ==
    {i \in DOMAIN groups :
        \E j \in DOMAIN groups[i].timelines : groups[i].timelines[j].id = id}

\* C37: in the DashboardData of the dashboard, every timeline of
\* providerTimelines is in exactly one group, the group keyed by its
\* latest.groupName or the ungrouped bucket, every member of a group is one
\* of providerTimelines, no group is empty, no two groups have the same key,
\* and the sizes of the groups add up to total
C37_GroupsPartitionTimelines ==
    DashboardDone =>
        LET groups == page.data.groupedTimelines
            timelines == page.data.providerTimelines
        IN  /\ \A k \in DOMAIN timelines :
                  /\ Cardinality(GroupsHolding(groups, timelines[k].id)) = 1
                  /\ \A i \in GroupsHolding(groups, timelines[k].id) :
                        /\ groups[i].groupName = GroupKeyOf(timelines[k])
                        /\ timelines[k] \in Range(groups[i].timelines)
            /\ \A i \in DOMAIN groups :
                  /\ groups[i].timelines # <<>>
                  /\ Range(groups[i].timelines) \subseteq Range(timelines)
            /\ \A i, j \in DOMAIN groups :
                  groups[i].groupName = groups[j].groupName => i = j
            /\ SumOfGroupSizes(groups, Len(groups)) = page.data.total
            /\ page.data.total = Len(timelines)

\* a dashboard of four timelines in two named groups and the ungrouped
\* bucket, one of them read from the store after a probe
C37_Witness ==
    /\ DashboardDone
    /\ page.probed
    /\ page.data.total = 4
    /\ Len(page.data.groupedTimelines) = 3
    /\ SumOfGroupSizes(page.data.groupedTimelines, 3) = 4
    /\ \E i \in 1..3 : Len(page.data.groupedTimelines[i].timelines) = 2

\* C38: the step that ends a run resets the polling flag whether the checks
\* resolved or threw, and a run that threw leaves the cache as it was; while
\* the timer stays live, after every run that ended a tick eventually starts a
\* new check
C38_FailedRunDoesNotBlock ==
    /\ [][(poller'.executing < poller.executing) =>
              /\ ~poller'.polling
              /\ poller'.last = "failed" => poller'.cache = poller.cache]_vars
    /\ (poller.last \in {"settled", "failed"} /\ poller.liveTimers > 0)
           ~> (poller.last = "tick_run" \/ poller.liveTimers = 0)

\* the immediate run threw, nothing is cached, and a tick has started the
\* next check
C38_Witness ==
    /\ poller.last = "tick_run"
    /\ poller.cache = "none"
    /\ poller.ops = 1
    /\ poller.immediates = 1
    /\ poller.executing = 1

\* no call is waiting for a read or a refresh, and no inflight is set
AllQuiet ==
    /\ \A c \in Callers : calls[c].pc \notin {"reading", "awaiting"}
    /\ \A key \in CacheKeys : pingCache[key].inflight = 0

\* C39: when every probe and every store operation eventually completes,
\* the program keeps coming back to a state where no call of
\* loadSnapshotForScope is waiting and no inflight is set: every call that
\* has started returns or rejects, and every inflight that is set is cleared
C39_CallsReturnAndInflightClears == []<>AllQuiet

\* a call that waited on another call's refresh has returned its value, and
\* the inflight of their key is cleared again
C39_Witness ==
    \E b, c \in Callers :
        /\ b # c
        /\ calls[c].pc = "done"
        /\ calls[c].via = "coalesced"
        /\ calls[c].inflight = b
        /\ calls[b].pc = "done"
        /\ calls[b].via = "started"
        /\ pingCache[calls[c].scope.cacheKey].inflight = 0
        /\ pingCache[calls[c].scope.cacheKey].lastPingAt > 0

====
